---- MODULE Spec2Model ----
(***************************************************************************)
(* Layout generators of des_binary_tree.py as state machines: one run is   *)
(* one call of draw_layout of Demux1To2 (SpecUnit), DesBinaryTree          *)
(* (SpecTree) or DesArrayBinaryTree (SpecArray).  The parameters are drawn *)
(* in the initial state and stay fixed in cfg; pc is the position in       *)
(* draw_layout, loc holds its local variables, and masters, insts, nets,   *)
(* ports and pool are what the template has created so far.                *)
(***************************************************************************)
EXTENDS Integers, Sequences, FiniteSets, TLC

VARIABLES cfg, pc, err, loc, masters, insts, nets, ports, pool

vars == <<cfg, pc, err, loc, masters, insts, nets, ports, pool>>

(***************************************************************************)
(* Bounds of the model                                                     *)
(***************************************************************************)
MaxStages == 3
\* most arrayed words (narr) and most bits per word (in_width)
MaxNarr == 4
MaxWidth == 2
\* most real units for which an explicit in_order is drawn
MaxPerm == 3
\* largest ndum
MaxDum == 2

(***************************************************************************)
(* Values standing for Python's None and for layout coordinates            *)
(***************************************************************************)
\* None for an optional tile index, net or track number
None == -1
\* slot of the left cell edge (bound_box.xl); unit u sits in slot u
LeftEdge == -1
\* routing layers counted from conn_layer
xm_layer == 3
xxm_layer == 5
\* abstract column widths used by the placement loop
blk_sp == 1
sub_sep == 2
tap_ncols == 2
buf_ncols == 2

(***************************************************************************)
(* Pure helpers                                                            *)
(***************************************************************************)
Min(a, b) == IF a < b THEN a ELSE b
Max(a, b) == IF a > b THEN a ELSE b

\* 1 << n
RECURSIVE Pow2(_)
Pow2(n) == IF n <= 0 THEN 1 ELSE 2 * Pow2(n - 1)

\* int(math.log2(n)) for n >= 1
RECURSIVE Log2Floor(_)
Log2Floor(n) == IF n <= 1 THEN 0 ELSE 1 + Log2Floor(n \div 2)

\* Python's s[a:b] for 0 <= a, 0 <= b (0-based, clamped to the length)
PySlice(s, a, b) ==
    IF Min(a, Len(s)) >= Min(b, Len(s)) THEN << >>
    ELSE SubSeq(s, Min(a, Len(s)) + 1, Min(b, Len(s)))

\* Python's s[a:]
PyTail(s, a) == PySlice(s, a, Len(s))

\* [f(i) for i in range(n)] for a track list on one layer
TrackRange(layer, n) == [i \in 1..Max(n, 0) |-> [layer |-> layer, idx |-> i - 1]]

\* all sequences over S of length n
RECURSIVE SeqsOfLen(_, _)
SeqsOfLen(S, n) ==
    IF n = 0 THEN {<< >>}
    ELSE {Append(s, x) : s \in SeqsOfLen(S, n - 1), x \in S}

(***************************************************************************)
(* Demux1To2: which storage instance drives which output port              *)
(***************************************************************************)
\* variant: the late output taken from the flop that is also the early output
out_inst_late_same(use_ff) == IF use_ff THEN "dff" ELSE "dlatch"

\* lines 195-202: the instance sampling late (out_inst_late)
out_inst_late(use_ff) == IF use_ff THEN "dff_late" ELSE "dlatch"

\* lines 195-202: the instance sampling early (out_inst_early)
out_inst_early(use_ff) == "dff"

\* lines 197, 201: the instance that takes the unit's input on the early path
in_inst_early(use_ff) == IF use_ff THEN "dlatch" ELSE "dff"

\* lines 198, 202: the instance that takes the unit's input on the late path
in_inst_late(use_ff) == out_inst_late(use_ff)

\* variant: the use_ff test is inverted
StorageChain_swapped(use_ff, sample) ==
    LET i == IF sample = "early" THEN in_inst_early(~use_ff) ELSE in_inst_late(~use_ff)
        o == IF sample = "early" THEN out_inst_early(~use_ff) ELSE out_inst_late(~use_ff)
    IN IF i = o THEN <<o>> ELSE <<i, o>>

\* lines 195-202, 268: the storage instances between the unit's input and the
\* output of the given sampling instant; with use_ff the latch's output feeds
\* the early flop
StorageChain(use_ff, sample) ==
    LET i == IF sample = "early" THEN in_inst_early(use_ff) ELSE in_inst_late(use_ff)
        o == IF sample = "early" THEN out_inst_early(use_ff) ELSE out_inst_late(use_ff)
    IN IF i = o THEN <<o>> ELSE <<i, o>>

\* line 271: int(not is_big_endian)
LatePortIdx(is_big_endian) == IF is_big_endian THEN 0 ELSE 1

\* line 272: int(is_big_endian)
EarlyPortIdx(is_big_endian) == IF is_big_endian THEN 1 ELSE 0

\* variant: the port names do not follow is_big_endian
DemuxOutPorts_fixed(use_ff, is_big_endian) ==
    {[base |-> "out", idx |-> 1, inst |-> out_inst_late(use_ff), sample |-> "late"],
     [base |-> "out", idx |-> 0, inst |-> out_inst_early(use_ff), sample |-> "early"]}

\* lines 270-272: the two reexported output ports of the unit
DemuxOutPorts(use_ff, is_big_endian) ==
    {[base |-> "out", idx |-> LatePortIdx(is_big_endian),
      inst |-> out_inst_late(use_ff), sample |-> "late"],
     [base |-> "out", idx |-> EarlyPortIdx(is_big_endian),
      inst |-> out_inst_early(use_ff), sample |-> "early"]}

(***************************************************************************)
(* DesBinaryTree: parameters                                               *)
(***************************************************************************)
\* self.ratio
ratio == Pow2(cfg.num_stages)

\* variant: one unit too few
num_units_short == ratio - 2

\* line 484
num_units == ratio - 1

\* slot of the right cell edge (bound_box.xh)
RightEdge == num_units

\* variant: a pool of only ratio tracks
num_used_tracks_ratio == ratio

\* line 559
num_used_tracks == (ratio * 3) \div 2

\* lines 433-435
tap_sep_unit == IF cfg.tap_sep_unit <= 0 THEN ratio \div 2 ELSE cfg.tap_sep_unit

\* lines 444-446
has_substrate_rows == cfg.ptap_tidx # None
draw_substrate_rows == cfg.draw_taps /\ has_substrate_rows
\* variant: tap columns are drawn whether or not there are substrate rows
draw_tap_columns_always == cfg.draw_taps

draw_tap_columns == cfg.draw_taps /\ ~has_substrate_rows

\* line 448
has_din_buf == cfg.din_buf

\* use_ff_list values offered for a tree of n stages: a bare boolean, the
\* lists of the right length that switch value once or at every stage, and
\* one list too short and one too long
UseFFInputs(n) ==
    {[isbool |-> TRUE, b |-> b, l |-> << >>] : b \in BOOLEAN}
    \cup {[isbool |-> FALSE, b |-> FALSE, l |-> l] :
            l \in {[i \in 1..n |-> IF i <= j THEN v ELSE ~v] : j \in 1..n, v \in BOOLEAN}
                  \cup {[i \in 1..n |-> IF i % 2 = 1 THEN v ELSE ~v] : v \in BOOLEAN}
                  \cup {[i \in 1..(n - 1) |-> FALSE], [i \in 1..(n + 1) |-> TRUE]}}

\* 'sig' track counts (xm_layer, xxm_layer) the grid may report for nl signal
\* layers, around the pool size p: too few, exactly enough, spare, and the
\* two-layer splits
TrackInputs(nl, p) ==
    IF nl = 1 THEN {<<p - 1, 0>>, <<p, 0>>, <<p + 1, 0>>}
    ELSE IF nl = 2
    THEN {<<p, 0>>, <<p, 1>>, <<p - 1, 1>>, <<p - 1, 2>>, <<1, p>>, <<0, p + 1>>}
    ELSE {<<p, 0>>}

TreeCfgsOf(n) ==
    {[comp |-> "tree", num_stages |-> n, use_ff_list |-> ff, din_buf |-> db,
      is_big_endian |-> be, num_sig_hor_layers |-> nl, ptap_tidx |-> pt,
      ntap_tidx |-> nt, clk_buf_stages |-> cb, draw_taps |-> dt,
      tap_sep_unit |-> None] :
        ff \in UseFFInputs(n), db \in BOOLEAN, be \in BOOLEAN, nl \in 1..3,
        pt \in {None, 0}, nt \in {None, 2}, cb \in 0..2, dt \in BOOLEAN}

TreeCfgs == UNION {TreeCfgsOf(n) : n \in 1..MaxStages}

\* a TrackID that is None, and a wire that is None
NoTid == [layer |-> None, idx |-> None]
NoWarr == [tid |-> NoTid, lo |-> 0, hi |-> 0]

\* locals of DesBinaryTree.draw_layout before their first assignment
TreeLoc0 ==
    [use_ff_list |-> << >>, demux_master_lu |-> << >>, din_buf_master |-> None,
     cur_col |-> 0, unit_idx |-> 0, taps |-> << >>, sub_rows |-> << >>,
     din_buf_col |-> None, din_warr |-> NoWarr,
     demux_idx |-> 0, sig_idx |-> 0, stg_idx |-> 0, inst_idx |-> 0,
     prev_out_warrs |-> << >>, out_warrs |-> << >>, clk_warrs |-> << >>,
     sup |-> << >>]

Pool0 == [sig_tids |-> << >>, conn_tid |-> NoTid, clk_tid |-> NoTid,
          num_sig_xm |-> None, num_sig_xxm |-> None]

InitTree ==
    /\ cfg \in TreeCfgs
    /\ pc = "t_check_taps"
    /\ err = "none"
    /\ loc = TreeLoc0
    /\ masters = << >>
    /\ insts = << >>
    /\ nets = << >>
    /\ ports = {}
    /\ pool = Pool0

(***************************************************************************)
(* DesBinaryTree.draw_layout: parameter checks and templates               *)
(***************************************************************************)
Raise(msg) ==
    /\ pc' = "error"
    /\ err' = msg

\* variant: the ptap/ntap check is missing
TCheckTaps_skip ==
    /\ pc = "t_check_taps"
    /\ pc' = "t_check_use_ff"
    /\ UNCHANGED <<cfg, err, loc, masters, insts, nets, ports, pool>>

\* lines 441-446
TCheckTaps ==
    /\ pc = "t_check_taps"
    /\ IF (cfg.ptap_tidx = None) # (cfg.ntap_tidx = None)
       THEN Raise("Either both ptap and ntap tidxes must be defined or not defined")
       ELSE pc' = "t_check_use_ff" /\ UNCHANGED err
    /\ UNCHANGED <<cfg, loc, masters, insts, nets, ports, pool>>

\* lines 449-452
TCheckUseFF ==
    /\ pc = "t_check_use_ff"
    /\ IF cfg.use_ff_list.isbool
       THEN /\ loc' = [loc EXCEPT !.use_ff_list =
                          [i \in 1..cfg.num_stages |-> cfg.use_ff_list.b]]
            /\ pc' = "t_check_clk_buf"
            /\ UNCHANGED err
       ELSE IF Len(cfg.use_ff_list.l) # cfg.num_stages
       THEN Raise("use_ff_list must have length num_stages") /\ UNCHANGED loc
       ELSE /\ loc' = [loc EXCEPT !.use_ff_list = cfg.use_ff_list.l]
            /\ pc' = "t_check_clk_buf"
            /\ UNCHANGED err
    /\ UNCHANGED <<cfg, masters, insts, nets, ports, pool>>

\* lines 468-471
TCheckClkBuf ==
    /\ pc = "t_check_clk_buf"
    /\ IF cfg.clk_buf_stages = 0
       THEN Raise("clk_buf_params is required for demux_params")
       ELSE pc' = "t_templates" /\ UNCHANGED err
    /\ UNCHANGED <<cfg, loc, masters, insts, nets, ports, pool>>

\* lines 475-481
TCreateTemplates ==
    /\ pc = "t_templates"
    /\ IF has_din_buf
       THEN /\ masters' = Append(masters, [cls |-> "InvChainCore", use_ff |-> FALSE,
                                           outs |-> {}])
            /\ loc' = [loc EXCEPT !.demux_master_lu = << >>,
                                  !.din_buf_master = Len(masters) + 1]
       ELSE /\ loc' = [loc EXCEPT !.demux_master_lu = << >>, !.din_buf_master = None]
            /\ UNCHANGED masters
    /\ pc' = "t_left_tap"
    /\ UNCHANGED <<cfg, err, insts, nets, ports, pool>>

(***************************************************************************)
(* DesBinaryTree.draw_layout: placement                                    *)
(***************************************************************************)
\* lines 484-496
TLeftTap ==
    /\ pc = "t_left_tap"
    /\ IF draw_tap_columns
       THEN loc' = [loc EXCEPT !.taps = Append(loc.taps, 0),
                               !.cur_col = tap_ncols + sub_sep, !.unit_idx = 0]
       ELSE loc' = [loc EXCEPT !.cur_col = 0, !.unit_idx = 0]
    /\ pc' = "t_din_buf"
    /\ UNCHANGED <<cfg, err, masters, insts, nets, ports, pool>>

\* lines 499-506
TPlaceDinBuf ==
    /\ pc = "t_din_buf"
    /\ IF has_din_buf
       THEN loc' = [loc EXCEPT !.din_buf_col = loc.cur_col + blk_sp,
                               !.cur_col = loc.cur_col + blk_sp + buf_ncols]
       ELSE loc' = [loc EXCEPT !.din_buf_col = None]
    /\ pc' = "t_place"
    /\ UNCHANGED <<cfg, err, masters, insts, nets, ports, pool>>

\* variant: the stage taken from unit_idx instead of 1 + unit_idx
PlaceStage_off(unit_idx) == Log2Floor(unit_idx)

\* line 521: the stage of the unit placed at position unit_idx
PlaceStage(unit_idx) == Log2Floor(1 + unit_idx)

\* demux_master.num_cols: the latch and the flop, and a second flop with use_ff
DemuxNumCols(use_ff) == IF use_ff THEN 3 * buf_ncols ELSE 2 * buf_ncols

\* lines 510-530: one iteration of the placement loop
TPlaceUnit ==
    /\ pc = "t_place"
    /\ loc.unit_idx < num_units
    /\ LET unit_idx == loc.unit_idx
           mid_tap == unit_idx > 0 /\ unit_idx % tap_sep_unit = 0 /\ draw_tap_columns
           col == IF mid_tap THEN loc.cur_col + sub_sep + tap_ncols + sub_sep
                  ELSE loc.cur_col + blk_sp
           stg_idx == PlaceStage(unit_idx)
           use_ff == loc.use_ff_list[stg_idx + 1]
           cached == use_ff \in DOMAIN loc.demux_master_lu
           master == IF cached THEN loc.demux_master_lu[use_ff] ELSE Len(masters) + 1
       IN /\ masters' = IF cached THEN masters
                        ELSE Append(masters,
                                    [cls |-> "Demux1To2", use_ff |-> use_ff,
                                     outs |-> DemuxOutPorts(use_ff, cfg.is_big_endian)])
          /\ insts' = Append(insts, [master |-> master, use_ff |-> use_ff,
                                     stg |-> stg_idx, col |-> col, rstg |-> None,
                                     din |-> None, out |-> <<None, None>>])
          /\ loc' = [loc EXCEPT
                        !.demux_master_lu = IF cached THEN @ ELSE @ @@ (use_ff :> master),
                        !.taps = IF mid_tap THEN Append(@, loc.cur_col + sub_sep) ELSE @,
                        !.cur_col = col + DemuxNumCols(use_ff),
                        !.unit_idx = unit_idx + 1]
    /\ UNCHANGED <<cfg, pc, err, nets, ports, pool>>

\* lines 531-549: after the loop
TEndPlace ==
    /\ pc = "t_place"
    /\ loc.unit_idx >= num_units
    /\ loc' = [loc EXCEPT
                  !.cur_col = loc.cur_col + sub_sep,
                  !.taps = IF draw_tap_columns THEN Append(@, loc.cur_col + sub_sep) ELSE @,
                  !.sub_rows = IF draw_substrate_rows
                               THEN <<cfg.ptap_tidx, cfg.ntap_tidx>> ELSE << >>]
    /\ pc' = "t_tracks"
    /\ UNCHANGED <<cfg, err, masters, insts, nets, ports, pool>>

(***************************************************************************)
(* DesBinaryTree.draw_layout: track pool                                   *)
(***************************************************************************)
\* lines 561-568: the pool with one signal layer
sig_tids_1(num_sig_wires) == TrackRange(xm_layer, num_used_tracks)

\* variant: the last first-layer track is put in the pool as well
sig_tids_2_keep(num_sig_xm) ==
    IF num_used_tracks <= num_sig_xm
    THEN TrackRange(xm_layer, num_used_tracks)
    ELSE TrackRange(xm_layer, num_sig_xm)
         \o TrackRange(xxm_layer, num_used_tracks - num_sig_xm)

\* lines 582-590: the pool with two signal layers
sig_tids_2(num_sig_xm) ==
    IF num_used_tracks <= num_sig_xm
    THEN TrackRange(xm_layer, num_used_tracks)
    ELSE TrackRange(xm_layer, num_sig_xm - 1)
         \o TrackRange(xxm_layer, num_used_tracks - num_sig_xm + 1)

\* line 588: the hand-off track, None unless the second layer is used
conn_tid_2(num_sig_xm) ==
    IF num_used_tracks <= num_sig_xm THEN NoTid
    ELSE [layer |-> xm_layer, idx |-> num_sig_xm - 1]

\* variant: the one-layer check rejects a layer with exactly enough tracks
TrackError_le(num_sig_hor_layers, num_sig_xm, num_sig_xxm) ==
    IF num_sig_hor_layers = 1
    THEN IF num_sig_xm <= num_used_tracks THEN "Not enough tracks" ELSE "none"
    ELSE IF num_sig_xm + num_sig_xxm < num_used_tracks + 1 THEN "Not enough tracks"
    ELSE "none"

\* lines 565, 579, 585, 593: the error raised by the track allocation, "none" if none
TrackError(num_sig_hor_layers, num_sig_xm, num_sig_xxm) ==
    IF num_sig_hor_layers = 1
    THEN IF num_sig_xm < num_used_tracks THEN "Not enough tracks" ELSE "none"
    ELSE IF num_sig_hor_layers = 2
    THEN IF num_sig_xm + num_sig_xxm < num_used_tracks + 1 THEN "Not enough tracks"
         ELSE IF num_used_tracks <= num_sig_xm THEN "none"
         ELSE IF num_sig_xm < 1
         THEN "Must have at least 1 track on xm_layer to use xxm_layer tracks"
         ELSE "none"
    ELSE "num_sig_hor_layers > 2 is currently not supported"

\* lines 559-593; the track counts are read from the grid's wire lookup
TAllocTracks ==
    /\ pc = "t_tracks"
    /\ \E tr \in TrackInputs(cfg.num_sig_hor_layers, num_used_tracks) :
         LET nl == cfg.num_sig_hor_layers
             num_sig_xm == IF nl \in {1, 2} THEN tr[1] ELSE None
             num_sig_xxm == IF nl = 2 THEN tr[2] ELSE None
             e == TrackError(nl, num_sig_xm, num_sig_xxm)
         IN /\ IF e # "none"
               THEN /\ Raise(e)
                    /\ pool' = [pool EXCEPT !.num_sig_xm = num_sig_xm,
                                            !.num_sig_xxm = num_sig_xxm]
               ELSE /\ pool' = [sig_tids |-> IF nl = 1 THEN sig_tids_1(num_sig_xm)
                                             ELSE sig_tids_2(num_sig_xm),
                                conn_tid |-> IF nl = 1 THEN NoTid
                                             ELSE conn_tid_2(num_sig_xm),
                                clk_tid |-> [layer |-> xm_layer, idx |-> 0],
                                num_sig_xm |-> num_sig_xm,
                                num_sig_xxm |-> num_sig_xxm]
                    /\ pc' = "t_route_in"
                    /\ UNCHANGED err
    /\ UNCHANGED <<cfg, loc, masters, insts, nets, ports>>

(***************************************************************************)
(* DesBinaryTree.draw_layout: routing                                      *)
(***************************************************************************)
Port(base, stg, idx, src, warr) ==
    [base |-> base, stg |-> stg, idx |-> idx, src |-> src, warr |-> warr]

Net(tid, slot, stg, drv, port, bit, sinks) ==
    [tid |-> tid, lo |-> slot, hi |-> slot, stg |-> stg, drv |-> drv, port |-> port,
     bit |-> bit, sinks |-> sinks]

\* [None for _ in range(n)]
NoneList(n) == [i \in 1..n |-> None]

\* lines 595-612
TRouteInput ==
    /\ pc = "t_route_in"
    /\ LET in_warr == Net(pool.sig_tids[1], 0, None, None, None, 0, {0})
       IN IF has_din_buf
          THEN /\ nets' = <<in_warr>>
               /\ loc' = [loc EXCEPT
                             !.din_warr = [tid |-> pool.sig_tids[1], lo |-> LeftEdge,
                                           hi |-> LeftEdge],
                             !.demux_idx = 0, !.sig_idx = 1, !.stg_idx = 0,
                             !.inst_idx = 0, !.prev_out_warrs = << >>,
                             !.out_warrs = NoneList(2)]
               /\ ports' = ports \cup {Port("din_buf", None, None, "net", 0),
                                       Port("din_vm", None, None, "din_buf_inst", None),
                                       Port("din", None, None, "din_warr", None)}
          ELSE /\ nets' = <<[in_warr EXCEPT !.lo = LeftEdge]>>
               /\ loc' = [loc EXCEPT
                             !.demux_idx = 0, !.sig_idx = 1, !.stg_idx = 0,
                             !.inst_idx = 0, !.prev_out_warrs = << >>,
                             !.out_warrs = NoneList(2)]
               /\ ports' = ports \cup {Port("din_vm", None, None, "demux_inst", 0),
                                       Port("din", None, None, "net", 0)}
    /\ insts' = [insts EXCEPT ![1].din = 0]
    /\ pc' = "t_route"
    /\ UNCHANGED <<cfg, err, masters, pool>>

\* line 617
num_blocks == Pow2(loc.stg_idx)

\* line 619
num_out == num_blocks * 2

\* line 618: the positions of the units of the stage being routed
sub_insts ==
    PySlice([u \in 1..Len(insts) |-> u - 1], loc.demux_idx, loc.demux_idx + num_blocks)

\* variant: the wraparound restarts at pool entry 1 instead of 0
out_tids_wrap1 ==
    IF loc.sig_idx + num_out > num_used_tracks
    THEN PyTail(pool.sig_tids, loc.sig_idx)
         \o PySlice(pool.sig_tids, 1, loc.sig_idx + num_out - num_used_tracks + 1)
    ELSE PySlice(pool.sig_tids, loc.sig_idx, loc.sig_idx + num_out)

\* lines 621-624
out_tids ==
    IF loc.sig_idx + num_out > num_used_tracks
    THEN PyTail(pool.sig_tids, loc.sig_idx)
         \o PySlice(pool.sig_tids, 0, loc.sig_idx + num_out - num_used_tracks)
    ELSE PySlice(pool.sig_tids, loc.sig_idx, loc.sig_idx + num_out)

\* variant: the two outputs of a unit on adjacent bit positions
bit_idxes_adjacent(inst_idx) == <<2 * inst_idx, 2 * inst_idx + 1>>

\* line 630
bit_idxes(inst_idx) == <<inst_idx, inst_idx + num_blocks>>

\* lines 627-643: one iteration of the loop over the units of a stage
TRouteUnit ==
    /\ pc = "t_route"
    /\ loc.inst_idx < Len(sub_insts)
    /\ LET inst_idx == loc.inst_idx
           stg_idx == loc.stg_idx
           u == sub_insts[inst_idx + 1]
           inst_out_tids == PySlice(out_tids, 2 * inst_idx, 2 * inst_idx + 2)
           nzip == Min(2, Len(inst_out_tids))
           new_nets == [k \in 1..nzip |->
                          Net(inst_out_tids[k], u, stg_idx, u, k - 1,
                              bit_idxes(inst_idx)[k], {})]
           num(k) == Len(nets) + k - 1
           out_warrs == [b \in 1..Len(loc.out_warrs) |->
                           IF \E k \in 1..nzip : bit_idxes(inst_idx)[k] + 1 = b
                           THEN num(CHOOSE k \in 1..nzip : bit_idxes(inst_idx)[k] + 1 = b)
                           ELSE loc.out_warrs[b]]
           prev == IF stg_idx > 0 THEN loc.prev_out_warrs[inst_idx + 1] ELSE None
           nets1 == nets \o new_nets
           clk_ports == (IF cfg.clk_buf_stages > 1
                         THEN {Port("clk_div_buf", stg_idx, inst_idx, "demux_inst", u)}
                         ELSE {})
                        \cup {Port("clk_divb_buf", stg_idx, inst_idx, "demux_inst", u)}
       IN IF stg_idx > 0 /\ prev = None
          THEN /\ Raise("AttributeError: 'NoneType' object has no attribute 'track_id'")
               /\ UNCHANGED <<loc, insts, nets, ports>>
          ELSE /\ nets' = IF stg_idx > 0
                          THEN [nets1 EXCEPT ![prev + 1].lo = Min(@, u),
                                             ![prev + 1].hi = Max(@, u),
                                             ![prev + 1].sinks = @ \cup {u}]
                          ELSE nets1
               /\ insts' = [insts EXCEPT
                               ![u + 1].rstg = stg_idx,
                               ![u + 1].din = IF stg_idx > 0 THEN prev ELSE @,
                               ![u + 1].out = [k \in 1..2 |->
                                                 IF k <= nzip THEN num(k) ELSE None]]
               /\ ports' = ports \cup clk_ports
                           \cup (IF stg_idx > 0
                                 THEN {Port("dmid", stg_idx - 1, inst_idx, "demux_inst", u)}
                                 ELSE {})
               /\ loc' = [loc EXCEPT !.out_warrs = out_warrs, !.inst_idx = inst_idx + 1]
               /\ UNCHANGED <<pc, err>>
    /\ UNCHANGED <<cfg, masters, pool>>

\* variant: the clock pins of every unit of the tree are collected
clk_vm_insts_all == [u \in 1..Len(insts) |-> u - 1]

\* line 645: the units whose clk pins make the clock net of the stage
clk_vm_insts == sub_insts

\* lines 645-654: the clock of the stage, and the loop's step to the next stage
TRouteClk ==
    /\ pc = "t_route"
    /\ loc.inst_idx >= Len(sub_insts)
    /\ LET stg_idx == loc.stg_idx
           clk_warr == [stg |-> stg_idx, tid |-> pool.clk_tid,
                        units |-> {clk_vm_insts[k] : k \in 1..Len(clk_vm_insts)}]
       IN /\ ports' = ports \cup {Port("clk_div_vm", stg_idx, None, "demux_inst", None),
                                  Port("clk_div", stg_idx, None, "clk_warr", stg_idx)}
          /\ loc' = [loc EXCEPT
                        !.clk_warrs = Append(@, clk_warr),
                        !.demux_idx = @ + num_blocks,
                        !.sig_idx = @ + num_out,
                        !.prev_out_warrs = loc.out_warrs,
                        !.out_warrs = IF stg_idx + 1 < cfg.num_stages
                                      THEN NoneList(2 * Pow2(stg_idx + 1)) ELSE @,
                        !.inst_idx = 0,
                        !.stg_idx = stg_idx + 1]
          /\ pc' = IF stg_idx + 1 < cfg.num_stages THEN "t_route" ELSE "t_dout"
    /\ UNCHANGED <<cfg, err, masters, insts, nets, pool>>

\* lines 656-657
TExportDout ==
    /\ pc = "t_dout"
    /\ IF \E i \in 1..Len(loc.prev_out_warrs) : loc.prev_out_warrs[i] = None
       THEN /\ Raise("extend_wires: warr is None")
            /\ UNCHANGED <<nets, ports>>
       ELSE /\ ports' = ports \cup {Port("dout", None, i - 1, "net", loc.prev_out_warrs[i]) :
                                      i \in 1..Len(loc.prev_out_warrs)}
            /\ nets' = [k \in 1..Len(nets) |->
                          IF \E i \in 1..Len(loc.prev_out_warrs) :
                                loc.prev_out_warrs[i] = k - 1
                          THEN [nets[k] EXCEPT !.hi = Max(@, RightEdge)]
                          ELSE nets[k]]
            /\ pc' = "t_supplies"
            /\ UNCHANGED err
    /\ UNCHANGED <<cfg, loc, masters, insts, pool>>

\* lines 659-690
TSupplies ==
    /\ pc = "t_supplies"
    /\ loc' = [loc EXCEPT !.sup = [insts |-> Len(insts) + (IF has_din_buf THEN 1 ELSE 0),
                                   taps |-> Len(loc.taps),
                                   rows |-> has_substrate_rows]]
    /\ ports' = ports \cup {Port("VDD", None, None, "sup", None),
                            Port("VSS", None, None, "sup", None)}
    /\ pc' = "done"
    /\ UNCHANGED <<cfg, err, masters, insts, nets, pool>>

NextTree ==
    \/ TCheckTaps
    \/ TCheckUseFF
    \/ TCheckClkBuf
    \/ TCreateTemplates
    \/ TLeftTap
    \/ TPlaceDinBuf
    \/ TPlaceUnit
    \/ TEndPlace
    \/ TAllocTracks
    \/ TRouteInput
    \/ TRouteUnit
    \/ TRouteClk
    \/ TExportDout
    \/ TSupplies

SpecTree == InitTree /\ [][NextTree]_vars

(***************************************************************************)
(* Properties of the tree                                                  *)
(***************************************************************************)
IsTree == cfg.comp = "tree"

\* the placement loop has ended
TreePlaced == IsTree /\ pc \in {"t_tracks", "t_route_in", "t_route", "t_dout", "t_supplies", "done"}

\* the track pool exists
TreePooled == IsTree /\ pc \in {"t_route_in", "t_route", "t_dout", "t_supplies", "done"}

\* the dout ports have been added
TreeExported == IsTree /\ pc \in {"t_supplies", "done"}

TreeDone == IsTree /\ pc = "done"

DoutPorts == {p \in ports : p.base = "dout"}

\* the nets driven by stage s
StageNets(s) == {k \in 1..Len(nets) : nets[k].stg = s}

\* stage s has been routed completely
StageRouted(s) == TreePooled /\ pc # "t_route_in" /\ (pc # "t_route" \/ loc.stg_idx > s)

\* C1: for every num_stages >= 1 the tree places exactly 2^num_stages - 1
\* Demux1To2 instances and exposes exactly 2^num_stages output ports, named
\* dout<0> .. dout<2^num_stages - 1>, on pairwise distinct nets.
InvC1 ==
    /\ TreePlaced =>
         /\ Len(insts) = 2^cfg.num_stages - 1
         /\ \A u \in 1..Len(insts) : masters[insts[u].master].cls = "Demux1To2"
    /\ TreeExported =>
         /\ Cardinality(DoutPorts) = 2^cfg.num_stages
         /\ {p.idx : p \in DoutPorts} = 0..(2^cfg.num_stages - 1)
         /\ \A p, q \in DoutPorts : p.warr = q.warr => p = q
         /\ \A p \in DoutPorts : p.src = "net" /\ p.warr \in 0..(Len(nets) - 1)

WitC1 == TreeDone /\ cfg.num_stages = 3 /\ Cardinality(DoutPorts) = 8 /\ Len(insts) = 7

\* C2: at stage s the unit with in-stage index i has out<0> and out<1> on
\* bit positions i and i + 2^s; once the stage is routed each of its
\* 2^(s+1) bit positions is assigned exactly once and none is left None;
\* for s > 0 the unit's input is the previous stage's output at bit position
\* i, so every previous-stage output feeds exactly one unit, and at stage 0
\* the input is the tree's input net.
InvC2 ==
    TreePooled =>
      /\ \A u \in 1..Len(insts) :
           insts[u].rstg # None =>
             LET s == insts[u].rstg
                 i == (u - 1) - (2^s - 1)
                 o0 == nets[insts[u].out[1] + 1]
                 o1 == nets[insts[u].out[2] + 1]
             IN /\ i \in 0..(2^s - 1)
                /\ o0.port = 0 /\ o0.bit = i /\ o0.stg = s /\ o0.drv = u - 1
                /\ o1.port = 1 /\ o1.bit = i + 2^s /\ o1.stg = s /\ o1.drv = u - 1
                /\ IF s = 0
                   THEN insts[u].din = 0 /\ nets[1].stg = None /\ (u - 1) \in nets[1].sinks
                   ELSE LET d == nets[insts[u].din + 1]
                        IN d.stg = s - 1 /\ d.bit = i /\ (u - 1) \in d.sinks
      /\ \A s \in 0..(cfg.num_stages - 1) :
           StageRouted(s) =>
             /\ \A b \in 0..(2^(s + 1) - 1) :
                  Cardinality({k \in StageNets(s) : nets[k].bit = b}) = 1
             /\ Cardinality(StageNets(s)) = 2^(s + 1)
             /\ s > 0 => \A k \in StageNets(s - 1) : Cardinality(nets[k].sinks) = 1
      /\ pc \in {"t_dout", "t_supplies", "done"} =>
           /\ Len(loc.prev_out_warrs) = 2^cfg.num_stages
           /\ \A b \in 1..Len(loc.prev_out_warrs) :
                /\ loc.prev_out_warrs[b] # None
                /\ nets[loc.prev_out_warrs[b] + 1].bit = b - 1
                /\ nets[loc.prev_out_warrs[b] + 1].stg = cfg.num_stages - 1

WitC2 ==
    /\ TreeDone /\ cfg.num_stages = 3
    /\ insts[6].rstg = 2 /\ nets[insts[6].out[2] + 1].bit = 6
    /\ nets[insts[6].din + 1].bit = 2

\* C3: the unit placed at position u belongs to stage floor(log2(u + 1)), so
\* stage s occupies the contiguous positions 2^s - 1 .. 2^(s+1) - 2, left to
\* right; and the routing loop wires unit u in the stage that picked its
\* use_ff flag at placement.
InvC3 ==
    IsTree =>
      /\ \A u \in 1..Len(insts) :
           LET s == insts[u].stg
           IN /\ 2^s <= u /\ u < 2^(s + 1)
              /\ insts[u].use_ff = loc.use_ff_list[s + 1]
              /\ masters[insts[u].master].use_ff = insts[u].use_ff
              /\ insts[u].rstg # None => insts[u].rstg = s
              /\ u > 1 => insts[u - 1].col < insts[u].col
      /\ TreePlaced =>
           \A s \in 0..(cfg.num_stages - 1) :
             {u \in 1..Len(insts) : insts[u].stg = s} = (2^s)..(2^(s + 1) - 1)
      /\ pc \in {"t_dout", "t_supplies", "done"} =>
           \A u \in 1..Len(insts) : insts[u].rstg = insts[u].stg

WitC3 ==
    /\ TreeDone /\ cfg.num_stages = 3
    /\ insts[3].stg = 1 /\ insts[4].stg = 2 /\ insts[4].rstg = 2
    /\ insts[3].use_ff # insts[4].use_ff

\* the number the creation order gives the output port of unit i of stage s
NetNumber(s, i, port) == 2^(s + 1) - 1 + 2 * i + port

\* C4: with pool size P = ratio*3/2 and nets numbered in creation order
\* (input 0, then stage by stage, unit by unit, out<0> before out<1>), net k
\* uses pool entry k mod P.
InvC4 ==
    TreePooled =>
      /\ Len(pool.sig_tids) = (2^cfg.num_stages * 3) \div 2
      /\ \A k \in 1..Len(nets) :
           /\ nets[k].tid = pool.sig_tids[((k - 1) % ((2^cfg.num_stages * 3) \div 2)) + 1]
           /\ IF k = 1 THEN nets[k].stg = None
              ELSE /\ nets[k].stg \in 0..(cfg.num_stages - 1)
                   /\ k - 1 = NetNumber(nets[k].stg, nets[k].drv - (2^nets[k].stg - 1),
                                        nets[k].port)
      /\ pc \in {"t_dout", "t_supplies", "done"} => Len(nets) = 2^(cfg.num_stages + 1) - 1

WitC4 ==
    /\ TreeDone /\ cfg.num_stages = 3 /\ Len(nets) = 15
    /\ nets[13].tid = pool.sig_tids[1] /\ nets[15].tid = pool.sig_tids[3]
    /\ nets[12].tid = pool.sig_tids[12]

\* the signal nets whose span covers slot x
LiveAt(x) == {k \in 1..Len(nets) : nets[k].lo <= x /\ x <= nets[k].hi}

\* C5: at every unit position x the number of signal nets whose span covers
\* x is at most the pool size ratio*3/2; the input spans from the left edge to
\* unit 0 and every final output from its unit to the right edge.
InvC5 ==
    TreePooled =>
      /\ \A x \in 0..(Len(insts) - 1) :
           Cardinality(LiveAt(x)) <= Len(pool.sig_tids)
      /\ Len(pool.sig_tids) = (2^cfg.num_stages * 3) \div 2
      /\ TreeExported =>
           /\ \A p \in DoutPorts :
                /\ nets[p.warr + 1].lo = nets[p.warr + 1].drv
                /\ nets[p.warr + 1].hi = Len(insts)
           /\ \A k \in 1..Len(nets) :
                nets[k].sinks # {} =>
                  /\ nets[k].hi = CHOOSE u \in nets[k].sinks : TRUE
                  /\ nets[k].stg # None => nets[k].lo = nets[k].drv
           /\ IF has_din_buf THEN loc.din_warr.lo = LeftEdge ELSE nets[1].lo = LeftEdge

WitC5 ==
    /\ TreeDone /\ cfg.num_stages = 1
    /\ Cardinality(LiveAt(0)) = 3 /\ Len(pool.sig_tids) = 3 /\ ~has_din_buf

WitC5Tree == TreeDone /\ cfg.num_stages = 3 /\ Cardinality(LiveAt(6)) = 9

\* C6: with num_sig_hor_layers = 1 the track allocation raises 'Not enough
\* tracks' exactly when the first signal layer has fewer than ratio*3/2 'sig'
\* tracks, and otherwise the pool is exactly tracks 0 .. ratio*3/2 - 1 of
\* that layer.
InvC6 ==
    (IsTree /\ cfg.num_sig_hor_layers = 1 /\ pool.num_sig_xm # None) =>
      LET P == (2^cfg.num_stages * 3) \div 2
      IN /\ (err = "Not enough tracks") <=> (pool.num_sig_xm < P)
         /\ pool.num_sig_xm < P => pc = "error" /\ nets = << >> /\ ports = {}
         /\ pool.num_sig_xm >= P =>
              /\ err = "none"
              /\ Len(pool.sig_tids) = P
              /\ \A i \in 1..P : pool.sig_tids[i] = [layer |-> xm_layer, idx |-> i - 1]
              /\ pool.conn_tid = NoTid

WitC6 ==
    /\ IsTree /\ cfg.num_sig_hor_layers = 1 /\ cfg.num_stages = 2
    /\ pool.num_sig_xm = 5 /\ err = "Not enough tracks"

WitC6Ok ==
    /\ TreeDone /\ cfg.num_sig_hor_layers = 1 /\ cfg.num_stages = 2
    /\ pool.num_sig_xm = 6 /\ Len(pool.sig_tids) = 6

(***************************************************************************)
(* Storage paths of the outputs                                            *)
(***************************************************************************)
\* the storage element behind output port idx of a set of unit output ports
StorageOf(outs, idx) ==
    LET p == CHOOSE q \in outs : q.idx = idx
    IN [inst |-> p.inst, sample |-> p.sample]

\* the storage elements between the tree input and net number k, stage 0
\* first, when the unit of use_ff flag f exposes the output ports outs_of[f]
RECURSIVE PathTo(_, _)
PathTo(k, outs_of) ==
    IF nets[k + 1].stg = None THEN << >>
    ELSE LET u == nets[k + 1].drv + 1
         IN Append(PathTo(insts[u].din, outs_of),
                   StorageOf(outs_of[insts[u].use_ff], nets[k + 1].port))

\* the net of output port dout<b>
DoutNet(b) == (CHOOSE p \in DoutPorts : p.idx = b).warr

\* the path of dout<b> in the tree as built
BuiltPath(b) ==
    PathTo(DoutNet(b), [f \in BOOLEAN |->
                          IF f \in DOMAIN loc.demux_master_lu
                          THEN masters[loc.demux_master_lu[f]].outs ELSE {}])

\* the path of dout<b> in the same tree built with is_big_endian = be
PathFor(b, be) == PathTo(DoutNet(b), [f \in BOOLEAN |-> DemuxOutPorts(f, be)])

\* b with its num_stages binary digits in reverse order
RECURSIVE BitReverse(_, _)
BitReverse(b, n) ==
    IF n = 0 THEN 0 ELSE (b % 2) * 2^(n - 1) + BitReverse(b \div 2, n - 1)

\* C7 as stated: the mapping from dout<b> to its storage path under
\* is_big_endian = true is the bit-reversal of the mapping under false.
OrigC7 ==
    TreeDone =>
      \A b \in 0..(2^cfg.num_stages - 1) :
        PathFor(b, TRUE) = PathFor(BitReverse(b, cfg.num_stages), FALSE)

\* C7, amended: the storage path of dout<b> under one value of is_big_endian
\* is the path of dout<ratio - 1 - b> under the other value (every binary
\* digit of b complemented: the output word in reverse order); the tree as
\* built follows its own flag, and toggling the flag twice gives back the
\* original mapping.
InvC7 ==
    TreeDone =>
      \A b \in 0..(2^cfg.num_stages - 1) :
        /\ Len(BuiltPath(b)) = cfg.num_stages
        /\ BuiltPath(b) = PathFor(b, cfg.is_big_endian)
        /\ BuiltPath(b) = PathFor(2^cfg.num_stages - 1 - b, ~cfg.is_big_endian)
        /\ PathFor(b, ~(~cfg.is_big_endian)) = BuiltPath(b)

WitC7 ==
    /\ TreeDone /\ cfg.num_stages = 2 /\ cfg.is_big_endian
    /\ BuiltPath(1) = PathFor(2, FALSE)
    /\ BuiltPath(1) # PathFor(1, FALSE)
    /\ BuiltPath(1)[1].sample = "early" /\ BuiltPath(1)[2].sample = "late"

(***************************************************************************)
(* Demux1To2.draw_layout                                                   *)
(***************************************************************************)
UnitCfgs ==
    [comp : {"unit"}, has_in_buf : BOOLEAN, clk_buf_stages : 0..2,
     use_ff : BOOLEAN, is_big_endian : BOOLEAN, export_nets : BOOLEAN,
     connect_in : BOOLEAN, vertical_sup : BOOLEAN, clk_on_right : BOOLEAN]

\* line 128
has_clk_buf == cfg.clk_buf_stages > 0

UnitLoc0 ==
    [cur_col |-> 0, out_inst_early |-> "none", in_inst_early |-> "none",
     in_inst_late |-> "none", out_inst_late |-> "none", in_warrs |-> << >>]

InitUnit ==
    /\ cfg \in UnitCfgs
    /\ pc = "u_templates"
    /\ err = "none"
    /\ loc = UnitLoc0
    /\ masters = << >>
    /\ insts = << >>
    /\ nets = << >>
    /\ ports = {}
    /\ pool = Pool0

UMaster(cls, name) == [cls |-> cls, name |-> name]

UInst(name, master, col) == [name |-> name, master |-> master, col |-> col]

UPin(inst, pin) == [inst |-> inst, pin |-> pin]

\* a wire of the unit: the pins it joins
UWire(name, pins) == [name |-> name, pins |-> pins]

\* a port of the unit; sample tells an output's sampling instant
UPort(base, idx, inst, sample, hide) ==
    [base |-> base, idx |-> idx, inst |-> inst, sample |-> sample, hide |-> hide]

\* lines 133-161
UCreateTemplates ==
    /\ pc = "u_templates"
    /\ masters' = <<UMaster("FlopCore", "dff_master"), UMaster("LatchCore", "dlatch_master")>>
                  \o (IF cfg.has_in_buf THEN <<UMaster("InvChainCore", "in_buf_master")>>
                      ELSE << >>)
                  \o (IF has_clk_buf THEN <<UMaster("InvChainCore", "clk_buf_master")>>
                      ELSE << >>)
    /\ pc' = "u_place_bufs"
    /\ UNCHANGED <<cfg, err, loc, insts, nets, ports, pool>>

\* lines 164-176
UPlaceBufs ==
    /\ pc = "u_place_bufs"
    /\ LET col1 == IF cfg.has_in_buf THEN buf_ncols + blk_sp ELSE 0
           left == has_clk_buf /\ ~cfg.clk_on_right
           col2 == IF left /\ cfg.clk_buf_stages > 1 THEN col1 + blk_sp ELSE col1
       IN /\ insts' = (IF cfg.has_in_buf THEN <<UInst("in_buf", "in_buf_master", 0)>>
                       ELSE << >>)
                      \o (IF left THEN <<UInst("clk_buf", "clk_buf_master", col2)>>
                          ELSE << >>)
          /\ loc' = [loc EXCEPT !.cur_col = IF left THEN col2 + buf_ncols + blk_sp ELSE col1]
    /\ pc' = "u_place_storage"
    /\ UNCHANGED <<cfg, err, masters, nets, ports, pool>>

\* lines 178-193
UPlaceStorage ==
    /\ pc = "u_place_storage"
    /\ LET c0 == loc.cur_col
           c1 == c0 + buf_ncols + blk_sp
           c2 == c1 + buf_ncols + blk_sp
           right == has_clk_buf /\ cfg.clk_on_right
           c3 == IF right /\ cfg.clk_buf_stages > 1 THEN c2 + blk_sp ELSE c2
       IN /\ insts' = insts \o <<UInst("dlatch", "dlatch_master", c0),
                                 UInst("dff", "dff_master", c1)>>
                      \o (IF right THEN <<UInst("clk_buf", "clk_buf_master", c3 + buf_ncols)>>
                          ELSE << >>)
          /\ loc' = [loc EXCEPT !.cur_col = IF right THEN c3 + buf_ncols + blk_sp ELSE c2]
    /\ pc' = "u_select"
    /\ UNCHANGED <<cfg, err, masters, nets, ports, pool>>

\* lines 195-203
USelectOutputs ==
    /\ pc = "u_select"
    /\ IF cfg.use_ff
       THEN /\ insts' = Append(insts, UInst(out_inst_late(TRUE), "dff_master", loc.cur_col))
            /\ loc' = [loc EXCEPT !.out_inst_early = out_inst_early(TRUE),
                                  !.in_inst_early = "dlatch",
                                  !.in_inst_late = out_inst_late(TRUE),
                                  !.out_inst_late = out_inst_late(TRUE)]
       ELSE /\ UNCHANGED insts
            /\ loc' = [loc EXCEPT !.out_inst_early = out_inst_early(FALSE),
                                  !.in_inst_early = out_inst_early(FALSE),
                                  !.in_inst_late = out_inst_late(FALSE),
                                  !.out_inst_late = out_inst_late(FALSE)]
    /\ pc' = "u_supplies"
    /\ UNCHANGED <<cfg, err, masters, nets, ports, pool>>

InstNames == {insts[k].name : k \in 1..Len(insts)}

\* lines 207-224
USupplies ==
    /\ pc = "u_supplies"
    /\ nets' = nets \o <<UWire("VDD", {UPin(n, "VDD") : n \in InstNames}),
                         UWire("VSS", {UPin(n, "VSS") : n \in InstNames})>>
    /\ ports' = ports \cup {UPort("VDD", None, "all", "none", FALSE),
                            UPort("VSS", None, "all", "none", FALSE)}
    /\ pc' = "u_clock"
    /\ UNCHANGED <<cfg, err, loc, masters, insts, pool>>

\* lines 227-258
UClock ==
    /\ pc = "u_clock"
    /\ IF ~has_clk_buf
       THEN /\ ports' = ports \cup {UPort("clkb", None, "dlatch", "none", FALSE),
                                    UPort("clk", None, "dlatch", "none", FALSE)}
            /\ UNCHANGED nets
       ELSE LET tap == IF cfg.clk_on_right THEN "dff" ELSE "dlatch"
                ck == IF cfg.clk_on_right THEN "pclk_s" ELSE "nclk"
                ckb == IF cfg.clk_on_right THEN "nclkb_s" ELSE "nclkb"
            IN IF cfg.clk_buf_stages = 1
               THEN /\ nets' = nets \o
                         <<UWire("clk", {UPin("clk_buf", "in"),
                                         UPin(tap, IF cfg.clk_on_right THEN "pclk" ELSE "nclk")}),
                           UWire("clkb_buf", {UPin(tap, ckb), UPin("clk_buf", "outb")})>>
                    /\ ports' = ports \cup
                         {UPort("clk", None, "dlatch", "none", FALSE),
                          UPort("clkb_buf", None, tap, "none", ~cfg.export_nets)}
               ELSE /\ nets' = nets \o
                         <<UWire("clk_buf", {UPin(tap, ck), UPin("clk_buf", "out")}),
                           UWire("clk", {UPin("clk_buf", "in")}),
                           UWire("clkb_buf", {UPin(tap, ckb), UPin("clk_buf", "outb")})>>
                    /\ ports' = ports \cup
                         {UPort("clk_buf", None, tap, "none", ~cfg.export_nets),
                          UPort("clk", None, "clk_buf", "none", FALSE),
                          UPort("clkb_buf", None, tap, "none", ~cfg.export_nets)}
    /\ pc' = "u_share_clock"
    /\ UNCHANGED <<cfg, err, loc, masters, insts, pool>>

\* lines 260-268
UShareClock ==
    /\ pc = "u_share_clock"
    /\ nets' = nets \o <<UWire("nclkb", {UPin("dlatch", "nclkb"), UPin("dff", "nclkb")}),
                         UWire("pclk", {UPin("dlatch", "pclk"), UPin("dff", "clk")})>>
                    \o (IF cfg.use_ff
                        THEN <<UWire("nclkb_s", {UPin("dff", "nclkb_s"),
                                                 UPin(loc.out_inst_late, "nclkb")}),
                               UWire("pclk_s", {UPin("dff", "pclk_s"),
                                                UPin(loc.out_inst_late, "pclk")}),
                               UWire("ff_buf", {UPin("dlatch", "out"), UPin("dff", "nin")})>>
                        ELSE << >>)
    /\ pc' = "u_outputs"
    /\ UNCHANGED <<cfg, err, loc, masters, insts, ports, pool>>

\* lines 270-272
UOutputs ==
    /\ pc = "u_outputs"
    /\ ports' = ports \cup {UPort(p.base, p.idx, p.inst, p.sample, FALSE) :
                              p \in DemuxOutPorts(cfg.use_ff, cfg.is_big_endian)}
    /\ pc' = "u_inputs"
    /\ UNCHANGED <<cfg, err, loc, masters, insts, nets, pool>>

\* lines 274-300
UInputs ==
    /\ pc = "u_inputs"
    /\ LET in_port == IF cfg.has_in_buf
                      THEN {UPort("in", None, "in_buf", "none", FALSE)} ELSE {}
       IN IF cfg.connect_in
          THEN LET in_warrs == {UPin("dlatch", "in"), UPin("dff", "in")}
                               \cup (IF cfg.has_in_buf THEN {UPin("in_buf", "out")} ELSE {})
               IN /\ nets' = Append(nets, UWire("in_hm", in_warrs))
                  /\ ports' = ports \cup in_port
                              \cup {IF cfg.has_in_buf
                                    THEN UPort("in_buf", None, "in_hm", "none", ~cfg.export_nets)
                                    ELSE UPort("in", None, "in_hm", "none", FALSE)}
                  /\ loc' = [loc EXCEPT !.in_warrs = <<"in_hm">>]
          ELSE /\ nets' = nets \o <<UWire("in_vm_early", {UPin(loc.in_inst_early, "pin")}),
                                    UWire("in_vm_late", {UPin(loc.in_inst_late, "pin")})>>
               /\ loc' = [loc EXCEPT !.in_warrs =
                             <<"in_vm_early", "in_vm_late">>
                             \o (IF cfg.has_in_buf THEN <<"in_buf.out">> ELSE << >>)]
               /\ ports' = ports \cup in_port
                           \cup (IF cfg.has_in_buf THEN {}
                                 ELSE {UPort("in", None, "in_vm", "none", FALSE)})
    /\ pc' = "done"
    /\ UNCHANGED <<cfg, err, masters, insts, pool>>

NextUnit ==
    \/ UCreateTemplates
    \/ UPlaceBufs
    \/ UPlaceStorage
    \/ USelectOutputs
    \/ USupplies
    \/ UClock
    \/ UShareClock
    \/ UOutputs
    \/ UInputs

SpecUnit == InitUnit /\ [][NextUnit]_vars

(***************************************************************************)
(* Properties of the unit                                                  *)
(***************************************************************************)
UnitDone == cfg.comp = "unit" /\ pc = "done"

OutPorts == {p \in ports : p.base = "out"}

OutPort(idx) == CHOOSE p \in OutPorts : p.idx = idx

\* C8: out<0> and out<1> are bound to two different storage instances for
\* both values of use_ff; with is_big_endian false out<1> is the late-sample
\* element and out<0> the early-sample element, and with is_big_endian true
\* the two port names are exchanged.
InvC8 ==
    UnitDone =>
      /\ Cardinality(OutPorts) = 2
      /\ {p.idx : p \in OutPorts} = {0, 1}
      /\ OutPort(0).inst # OutPort(1).inst
      /\ {OutPort(0).inst, OutPort(1).inst} \subseteq InstNames
      /\ LET late == IF cfg.is_big_endian THEN OutPort(0) ELSE OutPort(1)
             early == IF cfg.is_big_endian THEN OutPort(1) ELSE OutPort(0)
         IN /\ late.sample = "late" /\ late.inst = loc.out_inst_late
            /\ early.sample = "early" /\ early.inst = loc.out_inst_early
            /\ late.inst = IF cfg.use_ff THEN "dff_late" ELSE "dlatch"
            /\ early.inst = "dff"

WitC8 ==
    /\ UnitDone /\ cfg.use_ff /\ cfg.is_big_endian
    /\ OutPort(0).inst = "dff_late" /\ OutPort(1).inst = "dff"

WitC8Little ==
    /\ UnitDone /\ ~cfg.use_ff /\ ~cfg.is_big_endian
    /\ OutPort(1).inst = "dlatch" /\ OutPort(0).inst = "dff"

(***************************************************************************)
(* DesArrayBinaryTree: parameters                                          *)
(***************************************************************************)
\* line 869: [(arr_idx, bit_idx) for arr_idx in range(narr) for bit_idx in range(in_width)]
default_in_order(narr, in_width) ==
    [k \in 1..(narr * in_width) |-> <<(k - 1) \div in_width, (k - 1) % in_width>>]

\* Python's order on pairs of integers
PairLess(a, b) == a[1] < b[1] \/ (a[1] = b[1] /\ a[2] < b[2])

\* sorted(s) for a list of pairs: insertion of the last element into the sorted rest
RECURSIVE SortedPairs(_)
SortedPairs(s) ==
    IF Len(s) <= 1 THEN s
    ELSE LET r == SortedPairs(SubSeq(s, 1, Len(s) - 1))
             x == s[Len(s)]
             n == Cardinality({k \in 1..Len(r) : ~PairLess(x, r[k])})
         IN SubSeq(r, 1, n) \o <<x>> \o SubSeq(r, n + 1, Len(r))

\* sorted(s) for a list of integers
RECURSIVE SortedInts(_)
SortedInts(s) ==
    IF Len(s) <= 1 THEN s
    ELSE LET r == SortedInts(SubSeq(s, 1, Len(s) - 1))
             x == s[Len(s)]
             n == Cardinality({k \in 1..Len(r) : r[k] <= x})
         IN SubSeq(r, 1, n) \o <<x>> \o SubSeq(r, n + 1, Len(r))

\* variant: only the length of in_order is compared
InvalidPermutation_len(in_order, narr, in_width) == Len(in_order) # narr * in_width

\* line 872: the test that rejects in_order
InvalidPermutation(in_order, narr, in_width) ==
    SortedPairs(in_order) # SortedPairs(default_in_order(narr, in_width))

\* all orderings of the elements of the sequence s
RECURSIVE Orderings(_)
Orderings(s) ==
    IF Len(s) = 0 THEN {<< >>}
    ELSE UNION {{<<s[k]>> \o t :
                   t \in Orderings(SubSeq(s, 1, k - 1) \o SubSeq(s, k + 1, Len(s)))} :
                k \in 1..Len(s)}

\* in_order values offered: None, every permutation of the default order, and
\* lists that are no permutation: one entry replaced (repeated, missing or
\* out of range), one entry dropped, one entry added
InOrderInputs(narr, in_width) ==
    LET d == default_in_order(narr, in_width)
        lists == IF narr * in_width > MaxPerm THEN {}
                 ELSE Orderings(d)
                      \cup {[d EXCEPT ![j] = x] :
                              j \in 1..Len(d),
                              x \in {<<0, 0>>, <<narr, 0>>, <<0, in_width>>}}
                      \cup {SubSeq(d, 1, Len(d) - 1), Append(d, <<0, 0>>)}
    IN {[isnone |-> TRUE, l |-> << >>]} \cup {[isnone |-> FALSE, l |-> l] : l \in lists}

\* dummy placements offered: ndum alone, or a dum_unit_locs list (in range,
\* out of range, unsorted, repeated)
DumInputs(n) ==
    {[ndum |-> k, dum_unit_locs |-> << >>] : k \in 0..MaxDum}
    \cup {[ndum |-> 0, dum_unit_locs |-> l] :
            l \in {<<0>>, <<1>>, <<n>>, <<n + 1>>, <<-1>>, <<0, n + 1>>, <<1, 0>>,
                   <<1, 1>>, <<0, n + 2>>}}

ArrayCfgs ==
    UNION {{[comp |-> "array", narr |-> na, in_width |-> w, in_order |-> o,
             ndum |-> d.ndum, dum_unit_locs |-> d.dum_unit_locs, num_stages |-> n,
             clk_buf_stages |-> 2, din_buf |-> FALSE, export_unit_sup |-> es] :
              o \in InOrderInputs(na, w), d \in DumInputs(na * w), n \in 1..2,
              es \in BOOLEAN} :
           na \in 1..MaxNarr, w \in 1..MaxWidth}

ArrayLoc0 ==
    [in_order |-> << >>, dum_unit_locs |-> << >>, ndum |-> 0, num_tot |-> 0,
     tile_order |-> << >>, i |-> 0, unit_idx |-> 0, tile_idx |-> 0,
     unit_insts |-> << >>, dum_insts |-> << >>,
     unit_pinfo_list |-> << >>, dum_pinfo_list |-> << >>,
     unit_masters |-> << >>, dum_masters |-> << >>,
     dum_vss_vms |-> {}, sup |-> << >>, clk_idx |-> 0]

InitArray ==
    /\ cfg \in ArrayCfgs
    /\ pc = "a_in_order"
    /\ err = "none"
    /\ loc = ArrayLoc0
    /\ masters = << >>
    /\ insts = << >>
    /\ nets = << >>
    /\ ports = {}
    /\ pool = Pool0

\* line 875
arr_num_units == cfg.narr * cfg.in_width

(***************************************************************************)
(* DesArrayBinaryTree.draw_layout                                          *)
(***************************************************************************)
\* lines 869-873
ACheckInOrder ==
    /\ pc = "a_in_order"
    /\ IF cfg.in_order.isnone
       THEN /\ loc' = [loc EXCEPT !.in_order = default_in_order(cfg.narr, cfg.in_width)]
            /\ pc' = "a_dum_locs"
            /\ UNCHANGED err
       ELSE IF InvalidPermutation(cfg.in_order.l, cfg.narr, cfg.in_width)
       THEN Raise("in_order is an invalid permutation") /\ UNCHANGED loc
       ELSE /\ loc' = [loc EXCEPT !.in_order = cfg.in_order.l]
            /\ pc' = "a_dum_locs"
            /\ UNCHANGED err
    /\ UNCHANGED <<cfg, masters, insts, nets, ports, pool>>

\* variant: all dummies at the start of the column
DefaultDumLocs_front(n, ndum) == [k \in 1..ndum |-> k - 1]

\* line 886: list(range(ndum_half)) + list(range(num_units + ndum_half, num_units + ndum))
DefaultDumLocs(n, ndum) ==
    LET ndum_half == ndum \div 2
    IN [k \in 1..ndum_half |-> k - 1]
       \o [k \in 1..(ndum - ndum_half) |-> n + ndum_half + k - 1]

\* lines 875-888
ADumLocs ==
    /\ pc = "a_dum_locs"
    /\ IF Len(cfg.dum_unit_locs) > 0
       THEN LET locs == SortedInts(cfg.dum_unit_locs)
                ndum == Len(locs)
            IN IF locs[Len(locs)] >= arr_num_units + ndum \/ locs[1] < 0
               THEN Raise("Invalid dum_unit_locs") /\ UNCHANGED loc
               ELSE /\ loc' = [loc EXCEPT !.dum_unit_locs = locs, !.ndum = ndum,
                                          !.num_tot = arr_num_units + ndum]
                    /\ pc' = "a_pinfo"
                    /\ UNCHANGED err
       ELSE IF cfg.ndum % 2 # 0
       THEN Raise("ndum must be even") /\ UNCHANGED loc
       ELSE /\ loc' = [loc EXCEPT
                          !.dum_unit_locs = DefaultDumLocs(arr_num_units, cfg.ndum),
                          !.ndum = cfg.ndum,
                          !.num_tot = arr_num_units + cfg.ndum]
            /\ pc' = "a_pinfo"
            /\ UNCHANGED err
    /\ UNCHANGED <<cfg, masters, insts, nets, ports, pool>>

\* line 773: substrate rows are switched off in process_pinfo
arr_has_substrate_rows == FALSE

\* variant: no tile is flipped
TileOrder_noflip(num_logic_tiles) ==
    [k \in 1..num_logic_tiles |-> [name |-> "logic", flip |-> FALSE]]

\* lines 781-785: the tiles built by process_pinfo, one logic tile per row
TileOrder(num_logic_tiles) ==
    [k \in 1..num_logic_tiles |-> [name |-> "logic", flip |-> (k - 1) % 2 = 0]]

\* lines 890-929
APinfo ==
    /\ pc = "a_pinfo"
    /\ loc' = [loc EXCEPT !.tile_order = TileOrder(loc.num_tot),
                          !.i = 0, !.unit_idx = 0, !.tile_idx = 0]
    /\ pc' = "a_place"
    /\ UNCHANGED <<cfg, err, masters, insts, nets, ports, pool>>

\* the ports of a DesBinaryTree unit: base name, stage and index as in Port
TreePortNames(num_stages, clk_buf_stages, din_buf) ==
    {<<"din", None, None>>, <<"din_vm", None, None>>, <<"VDD", None, None>>,
     <<"VSS", None, None>>}
    \cup (IF din_buf THEN {<<"din_buf", None, None>>} ELSE {})
    \cup {<<"dout", None, k>> : k \in 0..(Pow2(num_stages) - 1)}
    \cup {<<"clk_div", s, None>> : s \in 0..(num_stages - 1)}
    \cup {<<"clk_div_vm", s, None>> : s \in 0..(num_stages - 1)}
    \cup UNION {{<<"clk_divb_buf", s, k>> : k \in 0..(Pow2(s) - 1)} :
                s \in 0..(num_stages - 1)}
    \cup (IF clk_buf_stages > 1
          THEN UNION {{<<"clk_div_buf", s, k>> : k \in 0..(Pow2(s) - 1)} :
                      s \in 0..(num_stages - 1)}
          ELSE {})
    \cup UNION {{<<"dmid", s - 1, k>> : k \in 0..(Pow2(s) - 1)} :
                s \in 1..(num_stages - 1)}

\* line 955: the ports the reexport loop skips
SkippedPort(name) == name[1] \in {"clk_div", "clk_div_vm", "VDD", "VSS"}

\* an exported port of the array: base name, the _{arr} and _{bit} parts of
\* the name, the <index>, and the row and unit port it comes from
APort(base, arr, bit, idx, row, from) ==
    [base |-> base, arr |-> arr, bit |-> bit, idx |-> idx, row |-> row, from |-> from]

\* variant: the outputs of one unit on adjacent indices of the array word
Reexported_blocked(name, arr_idx, bit_idx, row) ==
    IF name[1] = "din"
    THEN APort("din", arr_idx, None, IF cfg.in_width > 1 THEN bit_idx ELSE None, row, name)
    ELSE IF name[1] = "dout"
    THEN APort("dout", arr_idx, None, ratio * bit_idx + name[3], row, name)
    ELSE APort(name[1], arr_idx, bit_idx, None, row, name)

\* lines 957-967: the name under which a unit port is reexported
Reexported(name, arr_idx, bit_idx, row) ==
    IF name[1] = "din"
    THEN APort("din", arr_idx, None, IF cfg.in_width > 1 THEN bit_idx ELSE None, row, name)
    ELSE IF name[1] = "dout"
    THEN APort("dout", arr_idx, None, cfg.in_width * name[3] + bit_idx, row, name)
    ELSE APort(name[1], arr_idx, bit_idx, None, row, name)

\* variant: the cache lookup never finds an entry
CacheIdx_miss(pinfo_list, unit_pinfo) == 0

\* lines 821-843: the template cache of _add_unit_insts; the sub-pattern of a
\* row is its tile
CacheIdx(pinfo_list, unit_pinfo) ==
    IF \E k \in 1..Len(pinfo_list) : pinfo_list[k] = unit_pinfo
    THEN CHOOSE k \in 1..Len(pinfo_list) :
           /\ pinfo_list[k] = unit_pinfo
           /\ \A j \in 1..(k - 1) : pinfo_list[j] # unit_pinfo
    ELSE 0

ARow(kind, row, master, arr, bit) ==
    [kind |-> kind, row |-> row, master |-> master, arr |-> arr, bit |-> bit]

\* variant: the clocks of the dummy are left out of the tie
DumTiePins_noclk(num_stages) == {<<"din_vm", None>>, <<"VSS", None>>}

\* lines 941-945: the pins of a dummy that are connected together: din_vm, the
\* clk_div_{s}_vm of every stage, and the dummy's VSS
DumTiePins(num_stages) ==
    {<<"din_vm", None>>}
    \cup {<<"clk_div_vm", s>> : s \in 0..(num_stages - 1)}
    \cup {<<"VSS", None>>}

\* i in dum_unit_locs
IsDumLoc(i) == \E k \in 1..Len(loc.dum_unit_locs) : loc.dum_unit_locs[k] = i

\* variant: the loop over the rows stops one row early
RowsPlaced_early == loc.i >= loc.num_tot - 1

\* line 933: the loop over range(num_tot) has ended
RowsPlaced == loc.i >= loc.num_tot

\* lines 933-968: one iteration of the loop over the rows
APlaceRow ==
    /\ pc = "a_place"
    /\ ~RowsPlaced
    /\ LET i == loc.i
           unit_pinfo == loc.tile_order[loc.tile_idx + 1]
       IN IF IsDumLoc(i)
          THEN LET c == CacheIdx(loc.dum_pinfo_list, unit_pinfo)
                   m == IF c = 0 THEN Len(masters) + 1 ELSE loc.dum_masters[c]
               IN /\ masters' = IF c = 0
                                THEN Append(masters, [cls |-> "DesBinaryTree",
                                                      pinfo |-> unit_pinfo,
                                                      clk_layer |-> None])
                                ELSE masters
                  /\ insts' = Append(insts, ARow("dum", loc.tile_idx, m, None, None))
                  /\ nets' = Append(nets,
                                    [name |-> "VSS_tie", row |-> loc.tile_idx,
                                     pins |-> DumTiePins(cfg.num_stages)])
                  /\ loc' = [loc EXCEPT
                                !.dum_pinfo_list = IF c = 0 THEN Append(@, unit_pinfo) ELSE @,
                                !.dum_masters = IF c = 0 THEN Append(@, m) ELSE @,
                                !.dum_insts = Append(@, Len(insts) + 1),
                                !.dum_vss_vms = @ \cup {loc.tile_idx},
                                !.tile_idx = @ + 1,
                                !.i = i + 1]
                  /\ UNCHANGED <<pc, err, ports>>
          ELSE IF loc.unit_idx >= Len(loc.in_order)
          THEN /\ Raise("IndexError: list index out of range")
               /\ UNCHANGED <<loc, masters, insts, nets, ports>>
          ELSE LET arr_idx == loc.in_order[loc.unit_idx + 1][1]
                   bit_idx == loc.in_order[loc.unit_idx + 1][2]
                   c == CacheIdx(loc.unit_pinfo_list, unit_pinfo)
                   m == IF c = 0 THEN Len(masters) + 1 ELSE loc.unit_masters[c]
               IN /\ masters' = IF c = 0
                                THEN Append(masters, [cls |-> "DesBinaryTree",
                                                      pinfo |-> unit_pinfo,
                                                      clk_layer |-> xm_layer])
                                ELSE masters
                  /\ insts' = Append(insts, ARow("unit", loc.tile_idx, m, arr_idx, bit_idx))
                  /\ ports' = ports \cup
                       {Reexported(name, arr_idx, bit_idx, loc.tile_idx) :
                          name \in {q \in TreePortNames(cfg.num_stages, cfg.clk_buf_stages,
                                                        cfg.din_buf) : ~SkippedPort(q)}}
                  /\ loc' = [loc EXCEPT
                                !.unit_pinfo_list = IF c = 0 THEN Append(@, unit_pinfo) ELSE @,
                                !.unit_masters = IF c = 0 THEN Append(@, m) ELSE @,
                                !.unit_insts = Append(@, Len(insts) + 1),
                                !.tile_idx = @ + 1,
                                !.unit_idx = @ + 1,
                                !.i = i + 1]
                  /\ UNCHANGED <<pc, err, nets>>
    /\ UNCHANGED <<cfg, pool>>

\* lines 970-1019: taps, size and supplies
ASupplies ==
    /\ pc = "a_place"
    /\ RowsPlaced
    /\ IF Len(loc.unit_masters) = 0
       THEN /\ Raise("IndexError: list index out of range")
            /\ UNCHANGED <<loc, nets, ports>>
       ELSE /\ nets' = nets \o
                 <<[name |-> "VDD", row |-> None,
                    pins |-> {<<"VDD", insts[k].row>> : k \in 1..Len(insts)}],
                   [name |-> "VSS", row |-> None,
                    pins |-> {<<"VSS", insts[k].row>> : k \in 1..Len(insts)}]>>
            /\ ports' = ports
                 \cup {APort("VDD", None, None, None, None, <<"VDD", None, None>>),
                       APort("VSS", None, None, None, None, <<"VSS", None, None>>)}
                 \cup (IF loc.dum_vss_vms # {}
                       THEN {APort("VSS_vm", None, None, None, None, <<"VSS", None, None>>)}
                       ELSE {})
                 \cup (IF cfg.export_unit_sup
                       THEN {APort(b, None, None, None, insts[k].row, <<b, None, None>>) :
                               b \in {"VDD", "VSS"}, k \in 1..Len(insts)}
                       ELSE {})
            /\ loc' = [loc EXCEPT !.sup = <<"VDD", "VSS">>, !.clk_idx = 0]
            /\ pc' = "a_clock"
            /\ UNCHANGED err
    /\ UNCHANGED <<cfg, masters, insts, pool>>

\* variant: the clock pins of the dummies are merged too
ClkInsts_all == loc.unit_insts \o loc.dum_insts

\* line 1027: the instances whose clk_div_{i} pins are merged
ClkInsts == loc.unit_insts

\* lines 1025-1038: one iteration of the loop over the clock stages
ARouteClk ==
    /\ pc = "a_clock"
    /\ loc.clk_idx < cfg.num_stages
    /\ nets' = Append(nets, [name |-> "clk_div", row |-> loc.clk_idx,
                             pins |-> {<<"clk_div", insts[ClkInsts[k]].row>> :
                                         k \in 1..Len(ClkInsts)}])
    /\ ports' = ports \cup {APort("clk_div", None, None, loc.clk_idx, None,
                                  <<"clk_div", loc.clk_idx, None>>)}
    /\ loc' = [loc EXCEPT !.clk_idx = @ + 1]
    /\ UNCHANGED <<cfg, pc, err, masters, insts, pool>>

\* lines 1039-1050
AFinish ==
    /\ pc = "a_clock"
    /\ loc.clk_idx >= cfg.num_stages
    /\ pc' = "done"
    /\ UNCHANGED <<cfg, err, loc, masters, insts, nets, ports, pool>>

NextArray ==
    \/ ACheckInOrder
    \/ ADumLocs
    \/ APinfo
    \/ APlaceRow
    \/ ASupplies
    \/ ARouteClk
    \/ AFinish

SpecArray == InitArray /\ [][NextArray]_vars

(***************************************************************************)
(* Properties of the array                                                 *)
(***************************************************************************)
IsArray == cfg.comp = "array"

\* the loop over the rows has ended
ArrayPlaced == IsArray /\ pc \in {"a_clock", "done"}

\* no dum_unit_locs given and ndum even
DefaultDummies == Len(cfg.dum_unit_locs) = 0 /\ cfg.ndum % 2 = 0

\* [0, narr) x [0, in_width)
AddressProduct == (0..(cfg.narr - 1)) \X (0..(cfg.in_width - 1))

\* the rows holding a real unit
RealRows == {k \in 1..Len(insts) : insts[k].kind = "unit"}

DumRows == {k \in 1..Len(insts) : insts[k].kind = "dum"}

\* l lists every pair of the product exactly once
IsBijection(l) ==
    /\ Len(l) = cfg.narr * cfg.in_width
    /\ {l[k] : k \in 1..Len(l)} = AddressProduct

\* C9: for every in_order that passes validation, with default dummy
\* placement, the (array, bit) pairs of the real rows are exactly
\* [0,narr) x [0,in_width), each on exactly one row; every in_order that is
\* not a bijection onto that product is rejected with 'in_order is an invalid
\* permutation'.
InvC9 ==
    IsArray =>
      /\ (ArrayPlaced /\ DefaultDummies) =>
           /\ {<<insts[k].arr, insts[k].bit>> : k \in RealRows} = AddressProduct
           /\ \A a \in AddressProduct :
                Cardinality({k \in RealRows : <<insts[k].arr, insts[k].bit>> = a}) = 1
           /\ Cardinality(RealRows) = cfg.narr * cfg.in_width
      /\ (~cfg.in_order.isnone /\ ~IsBijection(cfg.in_order.l) /\ pc # "a_in_order") =>
           pc = "error" /\ err = "in_order is an invalid permutation" /\ insts = << >>
      /\ (pc \notin {"a_in_order", "error"} /\ ~cfg.in_order.isnone) =>
           IsBijection(cfg.in_order.l)

WitC9 ==
    /\ IsArray /\ pc = "done" /\ DefaultDummies /\ cfg.ndum = 2
    /\ cfg.narr = 3 /\ cfg.in_width = 1
    /\ cfg.in_order.l = <<<<2, 0>>, <<0, 0>>, <<1, 0>>>>
    /\ insts[2].arr = 2 /\ insts[3].arr = 0 /\ insts[4].arr = 1

WitC9Reject ==
    /\ IsArray /\ pc = "error" /\ err = "in_order is an invalid permutation"
    /\ cfg.narr = 2 /\ cfg.in_width = 1
    /\ cfg.in_order.l = <<<<0, 0>>, <<0, 0>>>>

\* C10: with default dummy placement the column has narr*in_width + ndum
\* rows; rows 0 .. ndum/2 - 1 and the last ndum/2 rows are dummies; the k-th
\* real row in tile order carries in_order[k], which for in_order = None is
\* (k div in_width, k mod in_width); dummies expose no din/dout.  For narr=2,
\* in_width=1, ndum=2: 4 rows, rows 0 and 3 dummy, rows 1 and 2 exposing
\* din_0/dout_0 and din_1/dout_1.
InvC10 ==
    (ArrayPlaced /\ DefaultDummies) =>
      LET n == cfg.narr * cfg.in_width
          h == cfg.ndum \div 2
      IN /\ Len(insts) = n + cfg.ndum
         /\ \A r \in 0..(Len(insts) - 1) :
              /\ insts[r + 1].row = r
              /\ (insts[r + 1].kind = "dum") <=> (r < h \/ r >= n + h)
              /\ insts[r + 1].kind = "dum" =>
                   \A p \in ports : p.base \in {"din", "dout"} => p.row # r
         /\ \A k \in 0..(n - 1) :
              LET row == insts[h + k + 1]
              IN /\ row.kind = "unit"
                 /\ <<row.arr, row.bit>> = loc.in_order[k + 1]
                 /\ ~cfg.in_order.isnone => <<row.arr, row.bit>> = cfg.in_order.l[k + 1]
                 /\ cfg.in_order.isnone =>
                      <<row.arr, row.bit>> = <<k \div cfg.in_width, k % cfg.in_width>>
                 /\ \E p \in ports : p.base = "din" /\ p.row = h + k /\ p.arr = row.arr
                 /\ \E p \in ports : p.base = "dout" /\ p.row = h + k /\ p.arr = row.arr
         /\ (cfg.narr = 2 /\ cfg.in_width = 1 /\ cfg.ndum = 2 /\ cfg.in_order.isnone) =>
              /\ Len(insts) = 4
              /\ DumRows = {1, 4}
              /\ {<<p.base, p.arr, p.idx>> : p \in {q \in ports : q.base = "din"}}
                   = {<<"din", 0, None>>, <<"din", 1, None>>}
              /\ \A p \in ports :
                   p.base \in {"din", "dout"} => p.row = p.arr + 1

WitC10 ==
    /\ IsArray /\ pc = "done" /\ cfg.in_order.isnone
    /\ cfg.narr = 2 /\ cfg.in_width = 1 /\ cfg.ndum = 2 /\ Len(cfg.dum_unit_locs) = 0
    /\ Len(insts) = 4 /\ DumRows = {1, 4}
    /\ \E p \in ports : p.base = "dout" /\ p.arr = 1 /\ p.row = 2

WitC10RowMajor ==
    /\ IsArray /\ pc = "done" /\ cfg.in_order.isnone /\ DefaultDummies
    /\ cfg.narr = 2 /\ cfg.in_width = 2 /\ cfg.ndum = 2
    /\ insts[4].arr = 1 /\ insts[4].bit = 0

(***************************************************************************)
(* Templates of the array                                                  *)
(***************************************************************************)
\* the tree templates of the real rows and of the dummy rows
RealMasters == {m \in 1..Len(masters) : masters[m].clk_layer # None}

DumMasters == {m \in 1..Len(masters) : masters[m].clk_layer = None}

\* the tile flips on which the rows of a family lie
FlipsOf(rows) == {loc.tile_order[insts[k].row + 1].flip : k \in rows}

\* C11 as stated: narr=4, in_width=2 with one shared unit_params creates
\* exactly 1 real-tree template, plus exactly 1 dummy template if ndum > 0.
OrigC11 ==
    (ArrayPlaced /\ cfg.narr = 4 /\ cfg.in_width = 2) =>
      /\ Cardinality(RealMasters) = 1
      /\ loc.ndum > 0 => Cardinality(DumMasters) = 1

\* C11, amended: with the tiles process_pinfo generates, the array creates
\* one real-tree template per tile flip on which a real row lies and one
\* dummy template per tile flip on which a dummy row lies, never one per row;
\* for narr=4, in_width=2 that is exactly 2 real-tree templates, and with
\* default dummy placement and ndum > 0 exactly 2 dummy templates; the count
\* is a function of the parameters alone, so two builds agree.
InvC11 ==
    ArrayPlaced =>
      /\ Cardinality(RealMasters) = Cardinality(FlipsOf(RealRows))
      /\ Cardinality(DumMasters) = Cardinality(FlipsOf(DumRows))
      /\ Cardinality(RealMasters) =
           Cardinality({r % 2 : r \in {q \in 0..(loc.num_tot - 1) : ~IsDumLoc(q)}})
      /\ Cardinality(DumMasters) =
           Cardinality({r % 2 : r \in {q \in 0..(loc.num_tot - 1) : IsDumLoc(q)}})
      /\ Len(masters) = Cardinality(RealMasters) + Cardinality(DumMasters)
      /\ (cfg.narr = 4 /\ cfg.in_width = 2) =>
           /\ Cardinality(RealMasters) = 2
           /\ Cardinality(RealRows) = 8
           /\ Cardinality(DumMasters) <= 2
           /\ (DefaultDummies /\ cfg.ndum > 0) => Cardinality(DumMasters) = 2

WitC11 ==
    /\ IsArray /\ pc = "done" /\ cfg.narr = 4 /\ cfg.in_width = 2
    /\ DefaultDummies /\ cfg.ndum = 2 /\ Len(insts) = 10
    /\ Cardinality(RealMasters) = 2 /\ Cardinality(DumMasters) = 2

(***************************************************************************)
(* The tree and the array under one specification                          *)
(***************************************************************************)
InitAll == InitTree \/ InitArray

NextAll == NextTree \/ NextArray

SpecAll == InitAll /\ [][NextAll]_vars

\* the Demux1To2 templates built with use_ff = f
DemuxMasters(f) ==
    {m \in 1..Len(masters) : masters[m].cls = "Demux1To2" /\ masters[m].use_ff = f}

\* the first row of the array of the same family and tile pattern as row k
FirstLike(k) ==
    CHOOSE j \in 1..k :
      /\ insts[j].kind = insts[k].kind
      /\ loc.tile_order[insts[j].row + 1] = loc.tile_order[insts[k].row + 1]
      /\ \A i \in 1..(j - 1) :
           ~(/\ insts[i].kind = insts[k].kind
             /\ loc.tile_order[insts[i].row + 1] = loc.tile_order[insts[k].row + 1])

\* C12: a template is constructed at most once per cache key and later
\* requests return the first object.  Tree: one Demux1To2 template per
\* distinct value in use_ff_list (at most two), every unit using the template
\* of its flag.  Array: a row constructs a tree template only if no earlier
\* row of its family (real or dummy) has an equal tile sub-pattern and
\* otherwise uses that earlier row's template, so with alternating flips a
\* family has at most two templates.
InvC12 ==
    /\ IsTree =>
         /\ \A f \in BOOLEAN : Cardinality(DemuxMasters(f)) <= 1
         /\ \A u \in 1..Len(insts) :
              /\ insts[u].master \in DemuxMasters(insts[u].use_ff)
              /\ insts[u].master = loc.demux_master_lu[insts[u].use_ff]
         /\ \A f \in BOOLEAN :
              (DemuxMasters(f) # {}) <=> (\E u \in 1..Len(insts) : insts[u].use_ff = f)
         /\ TreePlaced =>
              /\ Cardinality(DemuxMasters(TRUE) \cup DemuxMasters(FALSE))
                   = Cardinality({loc.use_ff_list[i] : i \in 1..cfg.num_stages})
              /\ Cardinality(DemuxMasters(TRUE) \cup DemuxMasters(FALSE)) <= 2
    /\ IsArray =>
         /\ \A k \in 1..Len(insts) :
              /\ insts[k].master = insts[FirstLike(k)].master
              /\ masters[insts[k].master].pinfo = loc.tile_order[insts[k].row + 1]
              /\ (masters[insts[k].master].clk_layer = None) <=> (insts[k].kind = "dum")
              /\ FirstLike(k) = k =>
                   \A j \in 1..(k - 1) : insts[j].master # insts[k].master
         /\ \A m \in 1..Len(masters) : \E k \in 1..Len(insts) : insts[k].master = m
         /\ Cardinality(RealMasters) <= 2
         /\ Cardinality(DumMasters) <= 2

WitC12 ==
    /\ TreeDone /\ cfg.num_stages = 3 /\ Len(insts) = 7
    /\ Cardinality(DemuxMasters(TRUE)) = 1 /\ Cardinality(DemuxMasters(FALSE)) = 1
    /\ insts[1].master # insts[2].master /\ insts[4].master = insts[7].master

WitC12Array ==
    /\ IsArray /\ pc = "done" /\ Len(insts) = 5 /\ DumRows = {1, 5}
    /\ insts[2].master = insts[4].master /\ insts[2].master # insts[3].master
    /\ insts[1].master = insts[5].master

(***************************************************************************)
(* Supply schemes of the tree                                              *)
(***************************************************************************)
\* tap columns were inserted; substrate contact rows were added
TapColumnsActive == Len(loc.taps) > 0

SubstrateRowsActive == Len(loc.sub_rows) > 0

\* the unit positions in front of which a mid tap column is due
MidTapUnits == {u \in 1..(num_units - 1) : u % tap_sep_unit = 0}

\* C13 as stated: in every configuration exactly one of periodic tap columns
\* and dedicated supply rows is active.
OrigC13 == TreePlaced => (TapColumnsActive # SubstrateRowsActive)

\* C13, amended: the two supply schemes are never both active; with
\* draw_taps true exactly one is active (tap columns at the start, at the end
\* and every tap_sep_unit units when ptap_tidx/ntap_tidx are None, the two
\* supply rows otherwise); with draw_taps false neither is active.
InvC13 ==
    TreePlaced =>
      /\ ~(TapColumnsActive /\ SubstrateRowsActive)
      /\ cfg.draw_taps =>
           /\ TapColumnsActive # SubstrateRowsActive
           /\ TapColumnsActive <=> (cfg.ptap_tidx = None /\ cfg.ntap_tidx = None)
           /\ TapColumnsActive => Len(loc.taps) = 2 + Cardinality(MidTapUnits)
           /\ SubstrateRowsActive => loc.sub_rows = <<cfg.ptap_tidx, cfg.ntap_tidx>>
      /\ ~cfg.draw_taps => (~TapColumnsActive /\ ~SubstrateRowsActive)

WitC13 ==
    /\ TreeDone /\ cfg.num_stages = 3 /\ cfg.draw_taps /\ cfg.ptap_tidx = None
    /\ Len(loc.taps) = 3 /\ ~SubstrateRowsActive

WitC13Rows ==
    /\ TreeDone /\ cfg.draw_taps /\ cfg.ptap_tidx # None
    /\ SubstrateRowsActive /\ ~TapColumnsActive

WitC13Neither == TreeDone /\ ~cfg.draw_taps /\ ~TapColumnsActive /\ ~SubstrateRowsActive

(***************************************************************************)
(* Port names of the array                                                 *)
(***************************************************************************)
\* the ports reexported from the units under a name of their own (the
\* supplies, when reexported, keep the names VDD and VSS)
UnitPorts == {p \in ports : p.row # None /\ p.base \notin {"VDD", "VSS"}}

\* the name string of a reexported port, as its distinguishing parts: din and
\* dout carry the array index and the <index>; the other ports carry the unit
\* port's own name, the array index and the bit index
ExportedName(p) ==
    IF p.base \in {"din", "dout"} THEN <<p.base, None, None, p.arr, None, p.idx>>
    ELSE <<p.base, p.from[2], p.from[3], p.arr, p.bit, None>>

\* C14: for each real unit with address (arr, bit) the tree port dout<k> is
\* reexported as dout_{arr}<in_width*k + bit> and din as din_{arr}<bit>
\* (din_{arr} when in_width = 1); the exported names are pairwise distinct,
\* and for each arr the dout indices cover 0 .. in_width*ratio - 1 exactly
\* once.
InvC14 ==
    IsArray =>
      /\ \A r \in RealRows :
           LET row == insts[r].row
               a == insts[r].arr
               b == insts[r].bit
           IN /\ \A k \in 0..(ratio - 1) :
                   LET ps == {p \in ports : p.row = row /\ p.from = <<"dout", None, k>>}
                   IN /\ Cardinality(ps) = 1
                      /\ \A p \in ps :
                           p.base = "dout" /\ p.arr = a /\ p.idx = cfg.in_width * k + b
              /\ LET ps == {p \in ports : p.row = row /\ p.from = <<"din", None, None>>}
                 IN /\ Cardinality(ps) = 1
                    /\ \A p \in ps :
                         /\ p.base = "din" /\ p.arr = a
                         /\ p.idx = IF cfg.in_width > 1 THEN b ELSE None
      /\ \A p, q \in UnitPorts : ExportedName(p) = ExportedName(q) => p = q
      /\ \A p \in UnitPorts : \E r \in RealRows : insts[r].row = p.row
      /\ ArrayPlaced =>
           \A a \in 0..(cfg.narr - 1) :
             /\ {p.idx : p \in {q \in ports : q.base = "dout" /\ q.arr = a}}
                  = 0..(cfg.in_width * ratio - 1)
             /\ \A x \in 0..(cfg.in_width * ratio - 1) :
                  Cardinality({p \in ports : p.base = "dout" /\ p.arr = a /\ p.idx = x}) = 1

WitC14 ==
    /\ IsArray /\ pc = "done" /\ cfg.narr = 2 /\ cfg.in_width = 2 /\ cfg.num_stages = 2
    /\ loc.ndum = 0 /\ insts[4].arr = 1 /\ insts[4].bit = 1
    /\ \E p \in ports : /\ p.row = 3 /\ p.from = <<"dout", None, 3>>
                        /\ p.base = "dout" /\ p.arr = 1 /\ p.idx = 7
    /\ \E p \in ports : p.row = 3 /\ p.base = "din" /\ p.arr = 1 /\ p.idx = 1

WitC14Narrow ==
    /\ IsArray /\ pc = "done" /\ cfg.in_width = 1 /\ cfg.narr = 2
    /\ \E p \in ports : p.base = "din" /\ p.arr = 1 /\ p.idx = None

(***************************************************************************)
(* Dummy rows                                                              *)
(***************************************************************************)
\* the tie nets of the tile row
TieNets(row) == {n \in 1..Len(nets) : nets[n].name = "VSS_tie" /\ nets[n].row = row}

\* C15: every dummy row is inert: its din_vm and the clk_div_{s}_vm of every
\* stage 0 .. num_stages-1 are connected to that dummy's own VSS, none of its
\* ports (so no din or dout) is reexported, save VDD and VSS with
\* export_unit_sup, and its template is built from the unit parameters with
\* clk_layer = None.
InvC15 ==
    IsArray =>
      /\ \A d \in DumRows :
           LET row == insts[d].row
           IN /\ Cardinality(TieNets(row)) = 1
              /\ \A n \in TieNets(row) :
                   /\ <<"din_vm", None>> \in nets[n].pins
                   /\ <<"VSS", None>> \in nets[n].pins
                   /\ \A s \in 0..(cfg.num_stages - 1) : <<"clk_div_vm", s>> \in nets[n].pins
                   /\ Cardinality(nets[n].pins) = cfg.num_stages + 2
              /\ \A p \in ports :
                   p.row = row => (p.base \in {"VDD", "VSS"} /\ cfg.export_unit_sup)
              /\ masters[insts[d].master].cls = "DesBinaryTree"
              /\ masters[insts[d].master].clk_layer = None
              /\ masters[insts[d].master].pinfo = loc.tile_order[row + 1]
      /\ \A r \in RealRows :
           /\ TieNets(insts[r].row) = {}
           /\ masters[insts[r].master].clk_layer # None
      /\ loc.dum_vss_vms = {insts[d].row : d \in DumRows}

WitC15 ==
    /\ IsArray /\ pc = "done" /\ cfg.num_stages = 2 /\ DumRows = {2}
    /\ Len(insts) = 3 /\ TieNets(1) # {} /\ TieNets(0) = {}
    /\ \A p \in ports : p.row # 1 \/ p.base \in {"VDD", "VSS"}

(***************************************************************************)
(* Clock and supply nets of the array                                      *)
(***************************************************************************)
\* the nets of the array with the given name
NetsNamed(name) == {n \in 1..Len(nets) : nets[n].name = name}

\* the array's own port clk_div_s
ClkPorts(s) == {p \in ports : p.base = "clk_div" /\ p.idx = s /\ p.row = None}

\* the clock stages routed so far
ClkRouted == IF pc = "done" THEN cfg.num_stages ELSE loc.clk_idx

\* C16: for each stage s the array exposes exactly one port clk_div_s, which
\* merges the clk_div_s pin of every real unit and of no dummy; the units'
\* clk_div_s, VDD and VSS ports are not reexported under per-unit names; the
\* array's VDD and VSS merge the supply pins of every instance, dummy and
\* real.
InvC16 ==
    IsArray =>
      /\ \A p \in ports :
           /\ p.from[1] \in {"clk_div", "clk_div_vm"} => (p.row = None /\ p.arr = None)
           /\ p.base \in {"VDD", "VSS"} => (p.arr = None /\ p.bit = None /\ p.idx = None)
           /\ p.base = "clk_div" => p.idx \in 0..(cfg.num_stages - 1)
      /\ ArrayPlaced =>
           /\ \A s \in 0..(cfg.num_stages - 1) :
                /\ Cardinality(ClkPorts(s)) = (IF s < ClkRouted THEN 1 ELSE 0)
                /\ Cardinality({n \in NetsNamed("clk_div") : nets[n].row = s})
                     = (IF s < ClkRouted THEN 1 ELSE 0)
                /\ \A n \in NetsNamed("clk_div") :
                     nets[n].row = s =>
                       nets[n].pins = {<<"clk_div", insts[r].row>> : r \in RealRows}
           /\ \A b \in {"VDD", "VSS"} :
                /\ Cardinality({p \in ports : p.base = b /\ p.row = None}) = 1
                /\ Cardinality(NetsNamed(b)) = 1
                /\ \A n \in NetsNamed(b) :
                     nets[n].pins = {<<b, insts[k].row>> : k \in RealRows \cup DumRows}
                /\ cfg.export_unit_sup <=> (\E p \in ports : p.base = b /\ p.row # None)

WitC16 ==
    /\ IsArray /\ pc = "done" /\ cfg.num_stages = 2 /\ Len(insts) = 4 /\ DumRows = {1, 4}
    /\ Cardinality(ClkPorts(0)) = 1 /\ Cardinality(ClkPorts(1)) = 1
    /\ \E n \in NetsNamed("clk_div") :
         nets[n].row = 1 /\ nets[n].pins = {<<"clk_div", 1>>, <<"clk_div", 2>>}
    /\ \E n \in NetsNamed("VDD") : Cardinality(nets[n].pins) = 4

(***************************************************************************)
(* Storage chains                                                          *)
(***************************************************************************)
\* the storage instances between the tree input and net number k, stage 0
\* first: for every unit on the way, the chain behind the output port it is
\* left through
RECURSIVE ChainTo(_)
ChainTo(k) ==
    IF nets[k + 1].stg = None THEN << >>
    ELSE LET u == nets[k + 1].drv + 1
             p == CHOOSE q \in masters[insts[u].master].outs : q.idx = nets[k + 1].port
             c == StorageChain(insts[u].use_ff, p.sample)
         IN ChainTo(insts[u].din)
            \o [j \in 1..Len(c) |-> [stg |-> insts[u].stg, unit |-> u - 1, inst |-> c[j]]]

\* C17: with use_ff false at every stage, no input buffer and little-endian,
\* the chain of storage instances between din and dout<ratio - 1> has exactly
\* num_stages elements, one per stage and in stage order, each the latch of
\* the last unit of its stage.
InvC17 ==
    (/\ TreeDone
     /\ \A i \in 1..cfg.num_stages : ~loc.use_ff_list[i]
     /\ ~cfg.din_buf /\ ~cfg.is_big_endian) =>
      LET c == ChainTo(DoutNet(ratio - 1))
      IN /\ Len(c) = cfg.num_stages
         /\ \A s \in 1..Len(c) :
              /\ c[s].stg = s - 1
              /\ c[s].unit = 2^s - 2
              /\ c[s].inst = "dlatch"

WitC17 ==
    /\ TreeDone /\ cfg.num_stages = 2 /\ ~cfg.din_buf /\ ~cfg.is_big_endian
    /\ \A i \in 1..2 : ~loc.use_ff_list[i]
    /\ ChainTo(DoutNet(3)) = <<[stg |-> 0, unit |-> 0, inst |-> "dlatch"],
                               [stg |-> 1, unit |-> 2, inst |-> "dlatch"]>>

WitC17Doubled ==
    /\ TreeDone /\ cfg.num_stages = 2 /\ ~cfg.is_big_endian
    /\ \A i \in 1..2 : loc.use_ff_list[i]
    /\ Len(ChainTo(DoutNet(0))) = 4 /\ Len(ChainTo(DoutNet(3))) = 2

(***************************************************************************)
(* Configuration errors of the tree                                        *)
(***************************************************************************)
TapsMismatch == (cfg.ptap_tidx = None) # (cfg.ntap_tidx = None)

UseFFMismatch == ~cfg.use_ff_list.isbool /\ Len(cfg.use_ff_list.l) # cfg.num_stages

\* the messages of the configuration errors
ConfigErrors ==
    {"Either both ptap and ntap tidxes must be defined or not defined",
     "use_ff_list must have length num_stages",
     "clk_buf_params is required for demux_params",
     "Not enough tracks",
     "Must have at least 1 track on xm_layer to use xxm_layer tracks",
     "num_sig_hor_layers > 2 is currently not supported"}

\* C18: every configuration error of the tree (ptap/ntap mismatch, use_ff_list
\* of the wrong length, missing clk_buf_params, too few signal tracks,
\* num_sig_hor_layers outside {1, 2}) aborts the compilation before any
\* signal net is connected and before any port is exposed, so a failed
\* compilation has no ports; the ptap/ntap mismatch is raised before any
\* template or instance is created.
InvC18 ==
    IsTree =>
      /\ pc = "error" => (err \in ConfigErrors /\ nets = << >> /\ ports = {})
      /\ (ports # {} \/ nets # << >>) => (pc # "error" /\ err = "none")
      /\ (TapsMismatch /\ pc # "t_check_taps") =>
           /\ pc = "error"
           /\ err = "Either both ptap and ntap tidxes must be defined or not defined"
           /\ masters = << >> /\ insts = << >>
      /\ (~TapsMismatch /\ UseFFMismatch /\ pc \notin {"t_check_taps", "t_check_use_ff"}) =>
           (pc = "error" /\ err = "use_ff_list must have length num_stages")
      /\ (/\ ~TapsMismatch /\ ~UseFFMismatch /\ cfg.clk_buf_stages = 0
          /\ pc \notin {"t_check_taps", "t_check_use_ff", "t_check_clk_buf"}) =>
           (pc = "error" /\ err = "clk_buf_params is required for demux_params")
      /\ (pool.num_sig_xm # None /\ cfg.num_sig_hor_layers \in {1, 2}
          /\ TrackError(cfg.num_sig_hor_layers, pool.num_sig_xm, pool.num_sig_xxm) # "none") =>
           /\ pc = "error"
           /\ err = TrackError(cfg.num_sig_hor_layers, pool.num_sig_xm, pool.num_sig_xxm)
      /\ (cfg.num_sig_hor_layers \notin {1, 2} /\ TreePooled) => FALSE
      /\ (cfg.num_sig_hor_layers \notin {1, 2} /\ pc = "error" /\ Len(insts) = num_units) =>
           err = "num_sig_hor_layers > 2 is currently not supported"

WitC18 ==
    /\ IsTree /\ pc = "error" /\ err = "Not enough tracks" /\ cfg.num_stages = 3
    /\ Len(insts) = 7 /\ Len(masters) >= 1 /\ ports = {} /\ nets = << >>

WitC18Taps ==
    /\ IsTree /\ pc = "error" /\ TapsMismatch /\ masters = << >> /\ insts = << >>
    /\ ~cfg.use_ff_list.isbool /\ Len(cfg.use_ff_list.l) # cfg.num_stages

WitC18Layers ==
    /\ IsTree /\ pc = "error" /\ cfg.num_sig_hor_layers = 3
    /\ err = "num_sig_hor_layers > 2 is currently not supported" /\ ports = {}

(***************************************************************************)
(* Track reuse                                                             *)
(***************************************************************************)
\* the pairs of distinct signal nets on one track, the earlier net first
SharedTrackPairs ==
    {jk \in (1..Len(nets)) \X (1..Len(nets)) :
       jk[1] < jk[2] /\ nets[jk[1]].tid = nets[jk[2]].tid}

\* C19: in every accepted configuration two distinct signal nets on the same
\* pool track occupy disjoint ranges of unit positions: the later one is an
\* output of the last stage and begins only after the earlier one (the
\* primary input, or an output of a stage at least two levels earlier) has
\* ended.
InvC19 ==
    TreePooled =>
      /\ \A jk \in SharedTrackPairs :
           LET e == nets[jk[1]]
               l == nets[jk[2]]
           IN /\ e.hi < l.lo
              /\ l.stg = cfg.num_stages - 1
              /\ e.stg = None \/ e.stg <= l.stg - 2
      /\ loc.din_warr # NoWarr =>
           \A k \in 1..Len(nets) :
             nets[k].tid = loc.din_warr.tid => loc.din_warr.hi < nets[k].lo

WitC19 ==
    /\ TreeDone /\ cfg.num_stages = 3 /\ <<2, 14>> \in SharedTrackPairs
    /\ <<1, 13>> \in SharedTrackPairs /\ <<3, 15>> \in SharedTrackPairs
    /\ nets[3].hi = 2 /\ nets[15].lo = 6 /\ nets[15].hi = RightEdge

WitC19Buf ==
    /\ TreeDone /\ cfg.num_stages = 2 /\ has_din_buf /\ <<1, 7>> \in SharedTrackPairs
    /\ loc.din_warr.tid = nets[7].tid

(***************************************************************************)
(* The track pool                                                          *)
(***************************************************************************)
\* the second layer is needed: the first has fewer 'sig' tracks than the pool
Overflow == cfg.num_sig_hor_layers = 2 /\ pool.num_sig_xm < (2^cfg.num_stages * 3) \div 2

\* C20: in every accepted configuration with one or two signal layers the
\* pool sig_tids has exactly ratio*3/2 entries, pairwise distinct as (layer,
\* index), every index below the number of 'sig' tracks of its layer, and in
\* the overflow case the hand-off track (first-layer index num_sig_xm - 1) is
\* not in the pool.
InvC20 ==
    TreePooled =>
      LET P == (2^cfg.num_stages * 3) \div 2
      IN /\ cfg.num_sig_hor_layers \in {1, 2}
         /\ Len(pool.sig_tids) = P
         /\ \A i, j \in 1..P : pool.sig_tids[i] = pool.sig_tids[j] => i = j
         /\ \A i \in 1..P :
              LET t == pool.sig_tids[i]
              IN /\ t.layer \in {xm_layer, xxm_layer}
                 /\ t.layer = xm_layer => t.idx \in 0..(pool.num_sig_xm - 1)
                 /\ t.layer = xxm_layer =>
                      (Overflow /\ t.idx \in 0..(pool.num_sig_xxm - 1))
         /\ Overflow =>
              /\ pool.conn_tid = [layer |-> xm_layer, idx |-> pool.num_sig_xm - 1]
              /\ \A i \in 1..P : pool.sig_tids[i] # pool.conn_tid
              /\ Cardinality({i \in 1..P : pool.sig_tids[i].layer = xm_layer})
                   = pool.num_sig_xm - 1
         /\ ~Overflow => pool.conn_tid = NoTid

WitC20 ==
    /\ TreeDone /\ cfg.num_sig_hor_layers = 2 /\ cfg.num_stages = 2
    /\ pool.num_sig_xm = 5 /\ pool.num_sig_xxm = 2
    /\ pool.conn_tid = [layer |-> xm_layer, idx |-> 4]
    /\ pool.sig_tids[4] = [layer |-> xm_layer, idx |-> 3]
    /\ pool.sig_tids[5] = [layer |-> xxm_layer, idx |-> 0]
    /\ pool.sig_tids[6] = [layer |-> xxm_layer, idx |-> 1]

WitC20OneTrack ==
    /\ TreeDone /\ cfg.num_sig_hor_layers = 2 /\ pool.num_sig_xm = 1
    /\ \A i \in 1..Len(pool.sig_tids) : pool.sig_tids[i].layer = xxm_layer

(***************************************************************************)
(* Two signal layers with a sufficient first layer                         *)
(***************************************************************************)
\* C21: with num_sig_hor_layers = 2, if the first signal layer alone has at
\* least ratio*3/2 'sig' tracks, the configuration is accepted without a
\* resource error whatever the track count of the second layer, and all
\* ratio*3/2 pool tracks are taken from the first layer with no hand-off
\* track.
OrigC21 ==
    (/\ IsTree /\ cfg.num_sig_hor_layers = 2 /\ pool.num_sig_xm # None
     /\ pool.num_sig_xm >= (2^cfg.num_stages * 3) \div 2) =>
      /\ pc # "error" /\ err = "none"
      /\ pool.sig_tids = TrackRange(xm_layer, (2^cfg.num_stages * 3) \div 2)
      /\ pool.conn_tid = NoTid

\* the case in which the claim of C21 holds: the second layer has a track
WitC21Accepted ==
    /\ TreeDone /\ cfg.num_sig_hor_layers = 2 /\ cfg.num_stages = 2
    /\ pool.num_sig_xm = 6 /\ pool.num_sig_xxm = 1
    /\ pool.sig_tids = TrackRange(xm_layer, 6) /\ pool.conn_tid = NoTid

\* the case in which it fails: the first layer has exactly ratio*3/2 tracks
\* and the second none
WitC21Rejected ==
    /\ IsTree /\ cfg.num_sig_hor_layers = 2 /\ cfg.num_stages = 1
    /\ pool.num_sig_xm = 3 /\ pool.num_sig_xxm = 0
    /\ pc = "error" /\ err = "Not enough tracks"

(***************************************************************************)
(* Routes through the tree                                                 *)
(***************************************************************************)
\* the units between the tree input and net number k, stage 0 first: stage,
\* index within the stage, and the output port the route leaves by
RECURSIVE RouteTo(_)
RouteTo(k) ==
    IF nets[k + 1].stg = None THEN << >>
    ELSE LET u == nets[k + 1].drv + 1
         IN Append(RouteTo(insts[u].din),
                   [stg |-> insts[u].rstg,
                    idx |-> (u - 1) - (2^insts[u].rstg - 1),
                    port |-> nets[k + 1].port])

\* C22: for every b in 0 .. ratio-1 the path from din to dout<b> goes, at
\* each stage s, through the unit with in-stage index b mod 2^s and leaves it
\* by out<d_s>, d_s being binary digit s of b (least significant at stage 0);
\* the 2^num_stages paths are pairwise different.
InvC22 ==
    TreeExported =>
      /\ \A b \in 0..(2^cfg.num_stages - 1) :
           LET r == RouteTo(DoutNet(b))
           IN /\ Len(r) = cfg.num_stages
              /\ \A s \in 0..(cfg.num_stages - 1) :
                   /\ r[s + 1].stg = s
                   /\ r[s + 1].idx = b % 2^s
                   /\ r[s + 1].port = (b \div 2^s) % 2
      /\ \A b, c \in 0..(2^cfg.num_stages - 1) :
           RouteTo(DoutNet(b)) = RouteTo(DoutNet(c)) => b = c

WitC22 ==
    /\ TreeDone /\ cfg.num_stages = 3
    /\ RouteTo(DoutNet(6)) = <<[stg |-> 0, idx |-> 0, port |-> 0],
                               [stg |-> 1, idx |-> 0, port |-> 1],
                               [stg |-> 2, idx |-> 2, port |-> 1]>>

(***************************************************************************)
(* Caller-specified dummy positions                                        *)
(***************************************************************************)
\* dum_unit_locs is given and every entry lies in [0, narr*in_width + len)
DumLocsInRange ==
    /\ Len(cfg.dum_unit_locs) > 0
    /\ \A k \in 1..Len(cfg.dum_unit_locs) :
         /\ cfg.dum_unit_locs[k] >= 0
         /\ cfg.dum_unit_locs[k] < cfg.narr * cfg.in_width + Len(cfg.dum_unit_locs)

\* the compilation is past the checks of in_order and dum_unit_locs
PastDumCheck == IsArray /\ pc \notin {"a_in_order", "a_dum_locs"}

\* C23: for every dum_unit_locs list that passes the range check the column
\* contains exactly len(list) dummy rows and narr*in_width real rows, and the
\* placement loop reads in_order only at indices 0 .. narr*in_width - 1; a
\* list with an entry outside the range is rejected with 'Invalid
\* dum_unit_locs' before any row is placed.
OrigC23 ==
    /\ (PastDumCheck /\ DumLocsInRange /\ err # "in_order is an invalid permutation") =>
         /\ err = "none" /\ pc # "error"
         /\ loc.unit_idx <= cfg.narr * cfg.in_width
         /\ Cardinality(RealRows) <= cfg.narr * cfg.in_width
         /\ ArrayPlaced =>
              /\ Cardinality(DumRows) = Len(cfg.dum_unit_locs)
              /\ Cardinality(RealRows) = cfg.narr * cfg.in_width
    /\ (PastDumCheck /\ Len(cfg.dum_unit_locs) > 0 /\ ~DumLocsInRange
        /\ err # "in_order is an invalid permutation") =>
         (pc = "error" /\ err = "Invalid dum_unit_locs" /\ insts = << >>)

\* a list that passes the range check and names a row twice: the loop asks
\* in_order for one entry more than it has
WitC23Repeated ==
    /\ IsArray /\ cfg.narr = 1 /\ cfg.in_width = 1 /\ cfg.dum_unit_locs = <<1, 1>>
    /\ cfg.in_order.isnone /\ pc = "error"
    /\ err = "IndexError: list index out of range"
    /\ Len(insts) = 2 /\ loc.unit_idx = 1 /\ loc.i = 2

\* a list without repetition: the claim's counts hold
WitC23Distinct ==
    /\ IsArray /\ pc = "done" /\ cfg.narr = 2 /\ cfg.in_width = 1
    /\ cfg.dum_unit_locs = <<1, 0>> /\ DumRows = {1, 2} /\ RealRows = {3, 4}

(***************************************************************************)
(* The three generators together: placement and routing phases             *)
(***************************************************************************)
InitComponents == InitUnit \/ InitTree \/ InitArray

NextComponents == NextUnit \/ NextTree \/ NextArray

SpecComponents == InitComponents /\ [][NextComponents]_vars

IsUnit == cfg.comp = "unit"

\* the instances a unit has when its placement is complete
UnitInstCount ==
    2 + (IF cfg.has_in_buf THEN 1 ELSE 0) + (IF has_clk_buf THEN 1 ELSE 0)
      + (IF cfg.use_ff THEN 1 ELSE 0)

\* every instance of the component has been placed
AllInstsPlaced ==
    /\ IsUnit => Len(insts) = UnitInstCount
    /\ IsTree => /\ Len(insts) = 2^cfg.num_stages - 1
                 /\ cfg.din_buf => loc.din_buf_col # None
    /\ IsArray => /\ pc \notin {"a_in_order", "a_dum_locs", "a_pinfo"}
                  /\ Len(insts) = loc.num_tot

\* some connection has been made
Connected == nets # << >> \/ (IsTree /\ loc.clk_warrs # << >>)

\* C24, as stated: in each of the three components all instances are placed
\* before the first net connection is made, so no connection exists while
\* instances remain to be placed.
OrigC24 == (pc # "error" /\ Connected) => AllInstsPlaced

\* the instances a connection names are placed
PinsPlaced ==
    /\ IsUnit => \A k \in 1..Len(nets) : \A p \in nets[k].pins : p.inst \in InstNames
    /\ IsTree =>
         /\ \A k \in 1..Len(nets) :
              /\ nets[k].drv # None => nets[k].drv < Len(insts)
              /\ \A u \in nets[k].sinks : u < Len(insts)
         /\ \A k \in 1..Len(loc.clk_warrs) :
              \A u \in loc.clk_warrs[k].units : u < Len(insts)
    /\ IsArray =>
         \A k \in 1..Len(nets) :
           IF nets[k].name = "VSS_tie"
           THEN \E r \in DumRows : insts[r].row = nets[k].row
           ELSE \A p \in nets[k].pins : \E r \in 1..Len(insts) : insts[r].row = p[2]

\* C24, amended: a connection only names instances that are already placed.
\* In the unit and in the tree all instances are placed before the first
\* connection.  In the array the tie of a dummy row's inputs to that row's
\* VSS is made inside the placement loop, right after the row is placed and
\* while later rows remain to be placed; the nets that span rows (VDD, VSS,
\* clk_div_s) are made after all rows are placed.
InvC24 ==
    pc # "error" =>
      /\ PinsPlaced
      /\ (IsUnit \/ IsTree) /\ Connected => AllInstsPlaced
      /\ IsArray =>
           \A k \in 1..Len(nets) : nets[k].name # "VSS_tie" => AllInstsPlaced

\* the array with a leading dummy: its tie exists while three rows remain
WitC24 ==
    /\ IsArray /\ pc = "a_place" /\ cfg.ndum = 2 /\ cfg.narr = 2 /\ cfg.in_width = 1
    /\ Len(insts) = 1 /\ loc.num_tot = 4
    /\ Len(nets) = 1 /\ nets[1].name = "VSS_tie" /\ nets[1].row = insts[1].row

\* the unit's first connection, with all five instances placed
WitC24Unit ==
    /\ IsUnit /\ pc = "u_clock" /\ cfg.use_ff /\ cfg.has_in_buf /\ has_clk_buf
    /\ Len(insts) = 5 /\ Len(nets) = 2

\* the tree's first connection, with all seven units placed
WitC24Tree ==
    /\ IsTree /\ pc = "t_route" /\ cfg.num_stages = 3 /\ Len(insts) = 7
    /\ Len(nets) = 1 /\ loc.clk_warrs = << >>

(***************************************************************************)
(* Clock nets of the tree                                                  *)
(***************************************************************************)
\* the columns under the clock wire of an entry of clk_warrs: from the first
\* column of its leftmost unit to the last column of its rightmost unit
ClkSpan(w) ==
    LET lo == CHOOSE u \in w.units : \A v \in w.units : insts[u + 1].col <= insts[v + 1].col
        hi == CHOOSE u \in w.units : \A v \in w.units : insts[u + 1].col >= insts[v + 1].col
    IN insts[lo + 1].col .. (insts[hi + 1].col + DemuxNumCols(insts[hi + 1].use_ff) - 1)

\* C25: all stages connect their clock net on the same clock track; the clock
\* net of stage s covers only the unit positions 2^s - 1 .. 2^(s+1) - 2 of
\* stage s, so the clock nets of two different stages have no unit position
\* and no column of the track in common.
InvC25 ==
    IsTree =>
      \A k \in 1..Len(loc.clk_warrs) :
        LET w == loc.clk_warrs[k]
        IN /\ w.stg = k - 1
           /\ w.tid = pool.clk_tid
           /\ w.tid = [layer |-> xm_layer, idx |-> 0]
           /\ w.units = (2^w.stg - 1) .. (2^(w.stg + 1) - 2)
           /\ \A u \in w.units : insts[u + 1].stg = w.stg
           /\ \A j \in 1..Len(loc.clk_warrs) :
                j # k => /\ w.units \cap loc.clk_warrs[j].units = {}
                         /\ ClkSpan(w) \cap ClkSpan(loc.clk_warrs[j]) = {}

WitC25 ==
    /\ TreeDone /\ cfg.num_stages = 3 /\ Len(loc.clk_warrs) = 3
    /\ loc.clk_warrs[1].units = {0}
    /\ loc.clk_warrs[2].units = {1, 2}
    /\ loc.clk_warrs[3].units = {3, 4, 5, 6}
    /\ loc.clk_warrs[1].tid = loc.clk_warrs[3].tid

(***************************************************************************)
(* The input buffer of the unit                                            *)
(***************************************************************************)
\* the wires of the unit that join the given pin
WiresOf(pin) == {k \in 1..Len(nets) : pin \in nets[k].pins}

\* the data input pins of an instance
DataInPins(inst) == {UPin(inst, "in"), UPin(inst, "pin")}

\* C26: in the unit built with an input buffer the buffer's output is
\* connected to the data inputs of both storage elements (latch and flop) for
\* either value of connect_in.
OrigC26 ==
    (UnitDone /\ cfg.has_in_buf) =>
      \E k \in WiresOf(UPin("in_buf", "out")) :
        /\ nets[k].pins \cap DataInPins("dlatch") # {}
        /\ nets[k].pins \cap DataInPins("dff") # {}

\* connect_in = False: the buffer's output is on no wire, only in the list
\* in_warrs that is not used again
WitC26Open ==
    /\ UnitDone /\ cfg.has_in_buf /\ ~cfg.connect_in
    /\ WiresOf(UPin("in_buf", "out")) = {}
    /\ loc.in_warrs = <<"in_vm_early", "in_vm_late", "in_buf.out">>
    /\ \A p \in ports : p.base # "in_buf"

\* connect_in = True: one wire joins the buffer's output and both inputs
WitC26Joined ==
    /\ UnitDone /\ cfg.has_in_buf /\ cfg.connect_in
    /\ \E k \in 1..Len(nets) :
         nets[k].pins = {UPin("dlatch", "in"), UPin("dff", "in"), UPin("in_buf", "out")}
====
